---- MODULE Spec2Model ----
(***************************************************************************)
(* A model of the content-generation back end: the document classifier    *)
(* (lib/googleDoc.ts), the competitor lookup (lib/googleSheets), the       *)
(* prompt resolver (lib/googleSheetsPrompts.ts), the content generator's   *)
(* keyword substitution and title casing (api/generate/[box]/route.ts)     *)
(* and the picture-batch selection (api/generate/pictures/route.ts).      *)
(*                                                                         *)
(* Strings are sequences of one-character strings, so that trimming,       *)
(* lower-casing, substring search and regex replacement are computed the   *)
(* way the JavaScript runtime computes them.                               *)
(***************************************************************************)
EXTENDS Integers, Sequences, FiniteSets, TLC

VARIABLES
    handler,         \* which operation this behaviour runs
    pc,              \* position of the handler under analysis
    keyword,         \* the keyword of the request
    env,             \* configuration, access token and fetch outcome
    document,        \* classifier: response.data of docs.documents.get
    textElements,    \* classifier: the flattened element list
    classification,  \* classifier: the ClassificationResult returned
    rows,            \* response.data.values of spreadsheets.values.get
    fieldId,         \* the field identifier of the request
    response,        \* the JSON response or result of the handler
    flow,            \* generator: the flow of the request
    reply,           \* generator: the text the model answers with
    prompt,          \* generator: the user prompt sent to the model
    modelCalls,      \* generator: calls of the text-generation model so far
    promptFetches,   \* generator: calls of the prompt resolver so far
    request,         \* generator: the optional context of the request body
    system,          \* generator: the system instruction sent to the model
    batch,           \* bulk generation: the loop over the flow's fields
    token,           \* token manager: one call of getValidAccessToken
    ui,              \* page: the state of the text tab and its requests
    combinations,    \* picture batch: the pairs parsed from the answer
    selectedIndices  \* picture batch: the indices drawn, in insertion order

classifyVars == <<document, textElements, classification>>

sheetVars == <<rows, fieldId, response>>

generateVars ==
    <<flow, reply, prompt, modelCalls, promptFetches, request, system>>

pictureVars == <<combinations, selectedIndices>>

batchVars == <<batch>>

tokenVars == <<token>>

uiVars == <<ui>>

vars == <<handler, pc, keyword, env, document, textElements, classification,
          rows, fieldId, response, flow, reply, prompt, modelCalls, promptFetches,
          request, system, batch, token, ui,
          combinations, selectedIndices>>

(***************************************************************************)
(* Character-level string primitives of the JavaScript runtime.            *)
(***************************************************************************)
Lowers == <<"a","b","c","d","e","f","g","h","i","j","k","l","m",
            "n","o","p","q","r","s","t","u","v","w","x","y","z">>
Uppers == <<"A","B","C","D","E","F","G","H","I","J","K","L","M",
            "N","O","P","Q","R","S","T","U","V","W","X","Y","Z">>

\* String.prototype.toLowerCase on one character.
LowerChar(c) ==
    IF \E i \in DOMAIN Uppers : Uppers[i] = c
    THEN Lowers[CHOOSE i \in DOMAIN Uppers : Uppers[i] = c]
    ELSE c

\* String.prototype.toUpperCase on one character.
UpperChar(c) ==
    IF \E i \in DOMAIN Lowers : Lowers[i] = c
    THEN Uppers[CHOOSE i \in DOMAIN Lowers : Lowers[i] = c]
    ELSE c

toLowerCase(s) == [i \in DOMAIN s |-> LowerChar(s[i])]

toUpperCase(s) == [i \in DOMAIN s |-> UpperChar(s[i])]

\* The characters String.prototype.trim and the regex class \s remove.
IsSpace(c) == c \in {" ", "\n", "\r", "\t"}

RECURSIVE trimStart(_)
trimStart(s) ==
    IF s # <<>> /\ IsSpace(Head(s)) THEN trimStart(Tail(s)) ELSE s

RECURSIVE trimEnd(_)
trimEnd(s) ==
    IF s # <<>> /\ IsSpace(s[Len(s)])
    THEN trimEnd(SubSeq(s, 1, Len(s) - 1))
    ELSE s

trim(s) == trimEnd(trimStart(s))

\* s.startsWith(p, at - 1): p occurs in s at the 1-based position at.
MatchesAt(s, p, at) ==
    /\ at >= 1
    /\ at + Len(p) - 1 <= Len(s)
    /\ \A j \in 1..Len(p) : s[at + j - 1] = p[j]

\* String.prototype.includes.
includes(s, p) == \E at \in 1..(Len(s) + 1) : MatchesAt(s, p, at)

\* String.prototype.indexOf, 0-based, -1 when absent.
indexOf(s, p) ==
    IF includes(s, p)
    THEN (CHOOSE at \in 1..(Len(s) + 1) :
             /\ MatchesAt(s, p, at)
             /\ \A b \in 1..(at - 1) : ~MatchesAt(s, p, b)) - 1
    ELSE -1

RECURSIVE Concat(_)
Concat(ss) == IF ss = <<>> THEN <<>> ELSE Head(ss) \o Concat(Tail(ss))

(***************************************************************************)
(* Document classifier: lib/googleDoc.ts                                   *)
(***************************************************************************)

\* namedStyleType.includes('HEADING')
IsHeadingStyle(styleType) ==
    styleType \in {"HEADING_1", "HEADING_2", "HEADING_3",
                   "HEADING_4", "HEADING_5", "HEADING_6"}

\* parseInt(styleType.replace('HEADING_', '')) || 1
HeadingLevel(styleType) ==
    CASE styleType = "HEADING_1" -> 1
      [] styleType = "HEADING_2" -> 2
      [] styleType = "HEADING_3" -> 3
      [] styleType = "HEADING_4" -> 4
      [] styleType = "HEADING_5" -> 5
      [] styleType = "HEADING_6" -> 6
      [] OTHER -> 1

\* ParagraphElements without the `if (text)` guard.
ParagraphElementsKeepBlank(paragraph) ==
    << [text |-> trim(Concat(paragraph.elements)),
        isHeading |-> IsHeadingStyle(paragraph.namedStyleType),
        level |-> IF IsHeadingStyle(paragraph.namedStyleType)
                  THEN HeadingLevel(paragraph.namedStyleType) ELSE 0] >>

\* The paragraph branch of extractContentFromElement: the element pushed
\* for one paragraph, or nothing when its trimmed text is empty.
ParagraphElements(paragraph) ==
    LET isHeading == IsHeadingStyle(paragraph.namedStyleType)
        headingLevel == IF isHeading
                        THEN HeadingLevel(paragraph.namedStyleType)
                        ELSE 0
        text == trim(Concat(paragraph.elements))
    IN  IF text # <<>>
        THEN << [text |-> text, isHeading |-> isHeading, level |-> headingLevel] >>
        ELSE <<>>

RECURSIVE extractContentFromElement(_, _)
RECURSIVE ExtractContent(_, _)
RECURSIVE ExtractCells(_, _)
RECURSIVE ExtractRows(_, _)

\* content.forEach(el => extractContentFromElement(el)), pushing onto acc.
ExtractContent(content, acc) ==
    IF content = <<>> THEN acc
    ELSE ExtractContent(Tail(content),
                        extractContentFromElement(Head(content), acc))

\* row.tableCells.forEach(cell => cell.content.forEach(...))
ExtractCells(cells, acc) ==
    IF cells = <<>> THEN acc
    ELSE ExtractCells(Tail(cells), ExtractContent(Head(cells), acc))

\* table.tableRows.forEach(row => ...)
ExtractRows(tableRows, acc) ==
    IF tableRows = <<>> THEN acc
    ELSE ExtractRows(Tail(tableRows), ExtractCells(Head(tableRows), acc))

\* One structural element: a paragraph is pushed when its trimmed text is
\* non-empty, then a table is entered row by row, cell by cell.
extractContentFromElement(element, acc) ==
    LET afterParagraph ==
            IF "paragraph" \in DOMAIN element
            THEN acc \o ParagraphElements(element.paragraph)
            ELSE acc
    IN  IF "table" \in DOMAIN element
        THEN ExtractRows(element.table, afterParagraph)
        ELSE afterParagraph

\* keyword.toLowerCase().trim()
KeywordLower(kw) == trim(toLowerCase(kw))

\* The predicate of textElements.find(...).
ElementContains(element, kw) ==
    includes(trim(toLowerCase(element.text)), KeywordLower(kw))

\* textElements.find(...) as a 1-based index, 0 when nothing matches.
RECURSIVE FindFrom(_, _, _)
FindFrom(elements, kw, i) ==
    IF i > Len(elements) THEN 0
    ELSE IF ElementContains(elements[i], kw) THEN i
    ELSE FindFrom(elements, kw, i + 1)

\* A find that only looks at headings.
FoundIndexHeadingsOnly(elements, kw) ==
    IF \E i \in DOMAIN elements :
          elements[i].isHeading /\ ElementContains(elements[i], kw)
    THEN CHOOSE i \in DOMAIN elements :
          /\ elements[i].isHeading /\ ElementContains(elements[i], kw)
          /\ \A j \in 1..(i - 1) :
                ~(elements[j].isHeading /\ ElementContains(elements[j], kw))
    ELSE 0

\* A find that keeps the last match instead of the first.
FoundIndexLast(elements, kw) ==
    IF \E i \in DOMAIN elements : ElementContains(elements[i], kw)
    THEN CHOOSE i \in DOMAIN elements :
          /\ ElementContains(elements[i], kw)
          /\ \A j \in (i + 1)..Len(elements) : ~ElementContains(elements[j], kw)
    ELSE 0

FoundIndex(elements, kw) == FindFrom(elements, kw, 1)

\* The subtopic loop skipping every element that contains the keyword.
RECURSIVE CollectSubtopicsSkipContaining(_, _, _)
CollectSubtopicsSkipContaining(elements, kw, i) ==
    IF i > Len(elements) THEN <<>>
    ELSE IF elements[i].isHeading THEN <<>>
    ELSE LET trimmedText == trim(elements[i].text)
             rest == CollectSubtopicsSkipContaining(elements, kw, i + 1)
         IN  IF trimmedText # <<>>
                /\ ~includes(toLowerCase(trimmedText), KeywordLower(kw))
             THEN <<trimmedText>> \o rest
             ELSE rest

\* The subtopic loop: from index i to the next heading, skipping elements
\* equal to the keyword.
RECURSIVE CollectSubtopics(_, _, _)
CollectSubtopics(elements, kw, i) ==
    IF i > Len(elements) THEN <<>>
    ELSE IF elements[i].isHeading THEN <<>>
    ELSE LET trimmedText == trim(elements[i].text)
             rest == CollectSubtopics(elements, kw, i + 1)
         IN  IF trimmedText # <<>> /\ toLowerCase(trimmedText) # KeywordLower(kw)
             THEN <<trimmedText>> \o rest
             ELSE rest

\* The backward walk for the parent heading; <<>> when there is none.
RECURSIVE ParentHeading(_, _)
ParentHeading(elements, i) ==
    IF i < 1 THEN <<>>
    ELSE IF elements[i].isHeading THEN elements[i].text
    ELSE ParentHeading(elements, i - 1)

\* The subtopics array returned as it is, empty or not.
OptionalSubtopicsAlways(subtopics) == [present |-> TRUE, value |-> subtopics]

\* subtopics.length > 0 ? subtopics : undefined
OptionalSubtopics(subtopics) ==
    IF Len(subtopics) > 0
    THEN [present |-> TRUE, value |-> subtopics]
    ELSE [present |-> FALSE, value |-> <<>>]

NullResult(why) ==
    [category |-> "null", reason |-> [kind |-> why],
     hasMatch |-> FALSE, matchedLine |-> <<>>, lineNumber |-> 0,
     hasSubtopics |-> FALSE, subtopics |-> <<>>]

\* The classification of a flattened element list (lines 169-268).
Classify(elements, kw) ==
    LET idx == FoundIndex(elements, kw)
    IN  IF idx = 0 THEN NullResult("keyword not found")
        ELSE LET foundElement == elements[idx]
                 subtopics == IF foundElement.isHeading
                              THEN CollectSubtopics(elements, kw, idx + 1)
                              ELSE <<>>
                 parentHeading == ParentHeading(elements, idx - 1)
             IN  [category |-> IF foundElement.isHeading
                               THEN "with subtopics" ELSE "no subtopics",
                  reason |-> IF foundElement.isHeading
                             THEN [kind |-> "heading", level |-> foundElement.level]
                             ELSE IF parentHeading # <<>>
                             THEN [kind |-> "under heading", heading |-> parentHeading]
                             ELSE [kind |-> "regular content"],
                  hasMatch |-> TRUE,
                  matchedLine |-> foundElement.text,
                  lineNumber |-> idx,
                  hasSubtopics |-> OptionalSubtopics(subtopics).present,
                  subtopics |-> OptionalSubtopics(subtopics).value]

\* The flattened list built from document.body.content.
Flatten(doc) == ExtractContent(doc, <<>>)

\* detectCategoryFromDoc: early returns, fetch, flatten, classify.
DetectResult(doc, kw, e) ==
    IF ~e.documentId THEN NullResult("no document id")
    ELSE IF ~e.credentials THEN NullResult("no credentials")
    ELSE IF ~e.accessToken THEN NullResult("no access token")
    ELSE IF e.fetch = "throws" THEN NullResult("api error")
    ELSE IF e.fetch = "no body" THEN NullResult("no content")
    ELSE Classify(Flatten(doc), kw)

\* The list is built only when the fetch returned a document with a body.
DetectElements(doc, e) ==
    IF e.documentId /\ e.credentials /\ e.accessToken /\ e.fetch = "ok"
    THEN Flatten(doc)
    ELSE <<>>

(***************************************************************************)
(* Inputs of the classifier.                                               *)
(***************************************************************************)
MaxBody == 4

SeqsUpTo(S, n) == UNION {[1..k -> S] : k \in 0..n}

Para(styleType, runs) ==
    [paragraph |-> [namedStyleType |-> styleType, elements |-> runs]]

Table(tableRows) == [table |-> tableRows]

EnvOk == [documentId |-> TRUE, credentials |-> TRUE,
          accessToken |-> TRUE, fetch |-> "ok"]

Envs == [documentId : BOOLEAN, credentials : BOOLEAN,
         accessToken : BOOLEAN, fetch : {"ok", "no body", "throws"}]

\* Body elements of the outline documents: a keyword heading, a line that
\* contains the keyword, a line equal to it (split over two text runs), a
\* second heading, and a table holding a blank paragraph.
OutlineElements ==
    { Para("HEADING_2", << <<"a","b","\n">> >>),
      Para("NORMAL_TEXT", << <<"A","b"," ","c","\n">> >>),
      Para("NORMAL_TEXT", << <<" ","a">>, <<"B"," ","\n">> >>),
      Para("HEADING_1", << <<"c","\n">> >>),
      Table(<< << << Para("NORMAL_TEXT", << <<"c","\n">> >>) >>,
                  << Para("NORMAL_TEXT", << <<" ","\n">> >>),
                     Para("NORMAL_TEXT", << <<"d","\n">> >>) >> >> >>) }

OutlineKeywords ==
    { <<"a","b">>, <<" ","A","B">>, <<"c">>, <<"z">>, <<" ">> }

\* Paragraphs and tables of the nested documents.
LeafParas ==
    { Para("NORMAL_TEXT", << <<"d","\n">> >>),
      Para("HEADING_1", << <<"a","b","\n">> >>),
      Para("TITLE", << <<" ","\n">> >>) }

TablesOver(E) ==
    { Table(<< << <<p>>, <<q>> >> >>) : p \in E, q \in E }
      \cup { Table(<< << <<p>> >>, << <<q>> >> >>) : p \in E, q \in E }
      \cup { Table(<< << <<p, q>> >> >>) : p \in E, q \in E }

FlatTables == TablesOver(LeafParas)

NestedTables == TablesOver(LeafParas \cup FlatTables)

NestedDocuments ==
    { <<t>> : t \in NestedTables }
      \cup { <<p, t, q>> : p \in LeafParas, t \in FlatTables, q \in LeafParas }

ClassifyIdle ==
    /\ document = <<>>
    /\ textElements = <<>>
    /\ classification = NullResult("pending")

NoResponse == [status |-> 0]

\* A request body without competitorUrls, previousPictures and subtopics.
NoRequestContext ==
    [competitorUrls |-> <<>>, previousPictures |-> <<>>, subtopics |-> <<>>]

GenerateIdle ==
    /\ flow = ""
    /\ request = NoRequestContext
    /\ system = <<>>
    /\ reply = <<>>
    /\ prompt = <<>>
    /\ modelCalls = 0
    /\ promptFetches = 0

BatchIdle == batch = [started |-> FALSE]

TokenIdle == token = [started |-> FALSE]

UiIdle == ui = [started |-> FALSE]

PictureIdle ==
    /\ combinations = <<>>
    /\ selectedIndices = <<>>

SheetIdle ==
    /\ rows = <<>>
    /\ fieldId = <<>>
    /\ response = NoResponse

InitClassify ==
    /\ handler = "classify"
    /\ pc = "start"
    /\ textElements = <<>>
    /\ classification = NullResult("pending")
    /\ SheetIdle
    /\ GenerateIdle
    /\ PictureIdle
    /\ BatchIdle
    /\ TokenIdle
    /\ UiIdle
    /\ \/ /\ document \in SeqsUpTo(OutlineElements, MaxBody)
          /\ keyword \in OutlineKeywords
          /\ env = EnvOk
       \/ /\ document \in NestedDocuments
          /\ keyword = <<"a","b">>
          /\ env = EnvOk
       \/ /\ document \in SeqsUpTo(OutlineElements, 1)
          /\ keyword \in { <<"a","b">>, <<"z">> }
          /\ env \in Envs

\* detectCategoryFromDoc(docUrl, keyword, accessToken)
detectCategoryFromDoc ==
    /\ handler = "classify"
    /\ pc = "start"
    /\ textElements' = DetectElements(document, env)
    /\ classification' = DetectResult(document, keyword, env)
    /\ pc' = "done"
    /\ UNCHANGED <<handler, document, keyword, env, sheetVars, generateVars,
                   pictureVars, batchVars, tokenVars, uiVars>>

NextClassify == detectCategoryFromDoc

SpecClassify == InitClassify /\ [][NextClassify]_vars

(***************************************************************************)
(* Properties of the classifier.                                           *)
(***************************************************************************)

\* text contains the trimmed keyword, letter case ignored.
ContainsKeyword(text, kw) ==
    LET k == trim(kw)
    IN  \E at \in 1..(Len(text) + 1) :
           /\ at + Len(k) - 1 <= Len(text)
           /\ \A j \in 1..Len(k) : LowerChar(text[at + j - 1]) = LowerChar(k[j])

\* text equals the trimmed keyword, letter case ignored.
EqualsKeyword(text, kw) ==
    LET k == trim(kw)
    IN  /\ Len(text) = Len(k)
        /\ \A j \in 1..Len(k) : LowerChar(text[j]) = LowerChar(k[j])

Matching(elements, kw) ==
    {i \in DOMAIN elements : ContainsKeyword(elements[i].text, kw)}

\* 1-based position of the first element containing the keyword, else 0.
FirstMatch(elements, kw) ==
    IF Matching(elements, kw) = {} THEN 0
    ELSE CHOOSE i \in Matching(elements, kw) :
            \A j \in Matching(elements, kw) : i <= j

\* Position of the first heading after m, or one past the end.
NextHeading(elements, m) ==
    LET hs == {j \in (m + 1)..Len(elements) : elements[j].isHeading}
    IN  IF hs = {} THEN Len(elements) + 1
        ELSE CHOOSE j \in hs : \A k \in hs : j <= k

\* Elements strictly between m and the next heading that are not the keyword.
Qualifying(elements, kw, m) ==
    {j \in (m + 1)..(NextHeading(elements, m) - 1) :
        ~EqualsKeyword(elements[j].text, kw)}

ExpectedSubtopics(elements, kw, m) ==
    LET between == SubSeq(elements, m + 1, NextHeading(elements, m) - 1)
        Keep(e) == ~EqualsKeyword(e.text, kw)
        kept == SelectSeq(between, Keep)
    IN  [i \in 1..Len(kept) |-> trim(kept[i].text)]

HardError(e) ==
    ~e.documentId \/ ~e.credentials \/ ~e.accessToken \/ e.fetch # "ok"

\* C1: when the first element containing the keyword is a heading, the
\* category is "with subtopics" and the subtopics are, in document order,
\* the trimmed texts of the elements strictly between the match and the
\* next heading (or the end), minus those equal to the trimmed keyword
\* case-insensitively.
C1_HeadingSubtopics ==
    (pc = "done" /\ ~HardError(env)) =>
        LET m == FirstMatch(textElements, keyword)
        IN  (m # 0 /\ textElements[m].isHeading) =>
               /\ classification.category = "with subtopics"
               /\ classification.subtopics
                     = ExpectedSubtopics(textElements, keyword, m)

\* A keyword heading followed by lines that count, one line equal to the
\* keyword, and a closing heading.
C1_Witness ==
    /\ pc = "done"
    /\ classification.category = "with subtopics"
    /\ Len(classification.subtopics) >= 2
    /\ NextHeading(textElements, classification.lineNumber) <= Len(textElements)
    /\ \E j \in (classification.lineNumber + 1)
                  ..(NextHeading(textElements, classification.lineNumber) - 1) :
          EqualsKeyword(textElements[j].text, keyword)

\* C2: category is null exactly when a hard error occurred or no flattened
\* element contains the keyword; otherwise it is one of the two flows.
C2_NullIffNotFoundOrError ==
    pc = "done" =>
        /\ classification.category \in {"null", "with subtopics", "no subtopics"}
        /\ (classification.category = "null")
              <=> (HardError(env) \/ Matching(Flatten(document), keyword) = {})

C2_Witness ==
    /\ pc = "done"
    /\ ~HardError(env)
    /\ classification.category = "null"
    /\ Len(textElements) >= 3

\* C3: subtopics is present only with category "with subtopics" and at least
\* one qualifying element between the match and the next heading; it is never
\* an empty list; a non-heading match gives "no subtopics" without subtopics.
C3_SubtopicsPresence ==
    pc = "done" =>
        /\ classification.hasSubtopics =>
              /\ classification.category = "with subtopics"
              /\ classification.subtopics # <<>>
              /\ Qualifying(textElements, keyword, classification.lineNumber) # {}
        /\ (classification.hasMatch
              /\ ~textElements[classification.lineNumber].isHeading) =>
              /\ classification.category = "no subtopics"
              /\ ~classification.hasSubtopics

\* A keyword heading whose only follower before the next heading is the
\* keyword itself: "with subtopics" and no subtopics field.
C3_Witness ==
    /\ pc = "done"
    /\ classification.category = "with subtopics"
    /\ ~classification.hasSubtopics
    /\ NextHeading(textElements, classification.lineNumber)
          > classification.lineNumber + 1

\* C4: with several matching elements only the first in document order is
\* used: matchedLine is its text, lineNumber its 1-based position, and the
\* heading rule is applied to it alone.
C4_FirstMatchWins ==
    (pc = "done" /\ ~HardError(env)) =>
        LET m == FirstMatch(textElements, keyword)
        IN  m # 0 =>
               /\ classification.hasMatch
               /\ classification.lineNumber = m
               /\ classification.matchedLine = textElements[m].text
               /\ classification.category =
                     IF textElements[m].isHeading
                     THEN "with subtopics" ELSE "no subtopics"

\* The first match is a plain line and a later match is a heading.
C4_Witness ==
    /\ pc = "done"
    /\ classification.category = "no subtopics"
    /\ \E j \in Matching(textElements, keyword) :
          j > classification.lineNumber /\ textElements[j].isHeading

\* Paragraphs of a body with their paths: the index in the body, then for
\* each table entered the row, the cell and the index in the cell.
RECURSIVE LeavesOf(_, _)
LeavesOf(content, prefix) ==
    UNION { LET el == content[k]
                p == Append(prefix, k)
            IN  (IF "paragraph" \in DOMAIN el
                 THEN {[path |-> p, paragraph |-> el.paragraph]}
                 ELSE {})
                \cup
                (IF "table" \in DOMAIN el
                 THEN UNION { UNION { LeavesOf(el.table[r][c], p \o <<r, c>>)
                                      : c \in DOMAIN el.table[r] }
                              : r \in DOMAIN el.table }
                 ELSE {})
            : k \in DOMAIN content }

\* Lexicographic order of paths: document order.
PathBefore(p, q) ==
    \E i \in 1..Len(p) :
        /\ i <= Len(q)
        /\ p[i] < q[i]
        /\ \A j \in 1..(i - 1) : p[j] = q[j]

RECURSIVE InDocumentOrder(_)
InDocumentOrder(leaves) ==
    IF leaves = {} THEN <<>>
    ELSE LET first == CHOOSE x \in leaves :
                         \A y \in leaves \ {x} : PathBefore(x.path, y.path)
         IN  <<first>> \o InDocumentOrder(leaves \ {first})

LeafText(leaf) == trim(Concat(leaf.paragraph.elements))

\* The texts of the non-blank paragraphs of the body, in document order.
ExpectedTexts(doc) ==
    LET shown == {l \in LeavesOf(doc, <<>>) : LeafText(l) # <<>>}
        ordered == InDocumentOrder(shown)
    IN  [i \in 1..Len(ordered) |-> LeafText(ordered[i])]

\* C5: the flattened sequence holds no element with empty trimmed text, and
\* holds the non-blank paragraphs in document order, those of a table at
\* the position of the table, whatever the nesting.
C5_FlattenNoBlankInOrder ==
    (pc = "done" /\ ~HardError(env)) =>
        /\ \A i \in DOMAIN textElements : trim(textElements[i].text) # <<>>
        /\ [i \in DOMAIN textElements |-> textElements[i].text]
              = ExpectedTexts(document)

\* A table nested in a table cell, a blank paragraph dropped, and at least
\* three paragraphs kept.
C5_Witness ==
    /\ pc = "done"
    /\ Len(textElements) >= 3
    /\ \E l \in LeavesOf(document, <<>>) : Len(l.path) >= 7
    /\ \E l \in LeavesOf(document, <<>>) : LeafText(l) = <<>>

(***************************************************************************)
(* Competitor lookup: getCompetitorUrlsFromSheets (lib/googleSheets) and   *)
(* POST /competitors                                                       *)
(***************************************************************************)

\* row[i] || '' with a 1-based index.
Cell(row, i) == IF i <= Len(row) THEN row[i] ELSE <<>>

\* The separator class of cellH.split(/[\n\r,;]+/).
IsUrlSeparator(c) == c \in {"\n", "\r", ",", ";"}

RECURSIVE SkipSeparators(_, _)
SkipSeparators(s, i) ==
    IF i <= Len(s) /\ IsUrlSeparator(s[i]) THEN SkipSeparators(s, i + 1) ELSE i

\* String.prototype.split on runs of separators.
RECURSIVE SplitFrom(_, _, _)
SplitFrom(s, i, piece) ==
    IF i > Len(s) THEN <<piece>>
    ELSE IF IsUrlSeparator(s[i])
    THEN <<piece>> \o SplitFrom(s, SkipSeparators(s, i), <<>>)
    ELSE SplitFrom(s, i + 1, Append(piece, s[i]))

\* url.length > 0 && (url.startsWith('http') || url.includes('.'))
LooksLikeUrl(url) ==
    /\ Len(url) > 0
    /\ \/ MatchesAt(url, <<"h","t","t","p">>, 1)
       \/ includes(url, <<".">>)

\* The URL list taken from column H of the matched row.
SplitUrls(cellH) ==
    IF trim(cellH) # <<>>
    THEN LET pieces == SplitFrom(cellH, 1, <<>>)
             trimmed == [i \in DOMAIN pieces |-> trim(pieces[i])]
         IN  SelectSeq(trimmed, LooksLikeUrl)
    ELSE <<>>

\* cellD.toLowerCase().includes(keyword.toLowerCase())
RowMatches(cellD, kw) == includes(toLowerCase(cellD), toLowerCase(kw))

\* The search loop over the rows; 0 when no row matches.
RECURSIVE FindRow(_, _, _)
FindRow(sheet, kw, i) ==
    IF i > Len(sheet) THEN 0
    ELSE IF RowMatches(Cell(sheet[i], 1), kw) THEN i
    ELSE FindRow(sheet, kw, i + 1)

SheetsFailure(why) ==
    [found |-> FALSE, competitorUrls |-> <<>>, rowNumber |-> 0,
     keywordCell |-> <<>>, error |-> why]

getCompetitorUrlsFromSheets(sheet, kw, e) ==
    IF ~e.credentials THEN SheetsFailure("credentials not configured")
    ELSE IF ~e.sheetId THEN SheetsFailure("sheet id not configured")
    ELSE IF ~e.accessToken THEN SheetsFailure("no access token")
    ELSE IF e.fetch = "throws" THEN SheetsFailure("api error")
    ELSE IF Len(sheet) = 0 THEN SheetsFailure("no data")
    ELSE LET foundRow == FindRow(sheet, kw, 1)
         IN  IF foundRow = 0 THEN SheetsFailure("keyword not found")
             ELSE [found |-> TRUE,
                   competitorUrls |-> SplitUrls(Cell(sheet[foundRow], 5)),
                   rowNumber |-> foundRow,
                   keywordCell |-> Cell(sheet[foundRow], 1),
                   error |-> "none"]

\* !keyword || typeof keyword !== 'string' || keyword.trim().length === 0
InvalidKeyword(kw) == Len(kw) = 0 \/ Len(trim(kw)) = 0

CompetitorsResponse(sheet, kw, e) ==
    IF InvalidKeyword(kw)
    THEN [status |-> 400, found |-> FALSE, competitorUrls |-> <<>>,
          matchedKeyword |-> <<>>, rowNumber |-> 0, error |-> "keyword required"]
    ELSE LET result == getCompetitorUrlsFromSheets(sheet, kw, e)
         IN  [status |-> 200, found |-> result.found,
              competitorUrls |-> result.competitorUrls,
              matchedKeyword |-> result.keywordCell,
              rowNumber |-> result.rowNumber, error |-> result.error]

MaxRows == 2

SheetEnvOk == [credentials |-> TRUE, sheetId |-> TRUE,
               accessToken |-> TRUE, fetch |-> "ok"]

SheetEnvs == [credentials : BOOLEAN, sheetId : BOOLEAN,
              accessToken : BOOLEAN, fetch : {"ok", "throws"}]

\* Column D cells: the keyword, the keyword in capitals, a longer phrase
\* holding it, and another keyword.
KeywordCells ==
    { <<"a","b">>, <<"A","B">>, <<"a","b"," ","c">>, <<"c">> }

\* Column H cells: two URLs, a URL among separators and a non-URL, blank.
UrlCells ==
    { <<"a",".","c",","," ","b",".","c">>,
      <<";","\n","h","t","t","p"," ",";","x">>,
      <<" ">> }

\* Rows of the range D:H, and rows cut short after column D.
CompetitorRows ==
    { <<d, <<>>, <<>>, <<>>, h>> : d \in KeywordCells, h \in UrlCells }
      \cup { <<d>> : d \in KeywordCells }

CompetitorKeywords == { <<"a","b">>, <<"A","b">>, <<"c">>, <<" ">>, <<>> }

InitCompetitors ==
    /\ handler = "competitors"
    /\ pc = "start"
    /\ ClassifyIdle
    /\ GenerateIdle
    /\ PictureIdle
    /\ BatchIdle
    /\ TokenIdle
    /\ UiIdle
    /\ fieldId = <<>>
    /\ response = NoResponse
    /\ \/ /\ rows \in SeqsUpTo(CompetitorRows, MaxRows)
          /\ keyword \in CompetitorKeywords
          /\ env = SheetEnvOk
       \/ /\ rows \in SeqsUpTo(CompetitorRows, 1)
          /\ keyword = <<"a","b">>
          /\ env \in SheetEnvs

\* POST /competitors
CompetitorsPOST ==
    /\ handler = "competitors"
    /\ pc = "start"
    /\ response' = CompetitorsResponse(rows, keyword, env)
    /\ pc' = "done"
    /\ UNCHANGED <<handler, keyword, env, rows, fieldId, classifyVars,
                   batchVars, tokenVars, generateVars, pictureVars,
                   uiVars>>

NextCompetitors == CompetitorsPOST

SpecCompetitors == InitCompetitors /\ [][NextCompetitors]_vars

\* C6: a row is selected only when its column D equals the keyword
\* case-insensitively, and the response then carries found = true and the
\* row's column H split into its URLs; a row that merely contains the
\* keyword is not selected.
C6_ExactRowMatch ==
    (pc = "done" /\ response.status = 200 /\ response.found) =>
        /\ toLowerCase(Cell(rows[response.rowNumber], 1)) = toLowerCase(keyword)
        /\ response.competitorUrls = SplitUrls(Cell(rows[response.rowNumber], 5))

(***************************************************************************)
(* Prompt resolver: lib/googleSheetsPrompts.ts                             *)
(***************************************************************************)

\* Field identifiers, as the characters of the request's fieldId.
F_title == <<"t","i","t","l","e">>
F_intro == <<"i","n","t","r","o">>
F_pic1 == <<"p","i","c","1">>
F_pic2 == <<"p","i","c","2">>
F_pic3 == <<"p","i","c","3">>
F_pic4 == <<"p","i","c","4">>
F_pictures == <<"p","i","c","t","u","r","e","s">>
F_subtopics == <<"s","u","b","t","o","p","i","c","s">>
F_cost == <<"c","o","s","t">>
F_why == <<"w","h","y">>
F_faq == <<"f","a","q">>

\* mappings[fieldId] || fieldId
mapFieldId(f) ==
    CASE f = F_title -> <<"T","i","t","l","e">>
      [] f = F_intro -> <<"I","n","t","r","o">>
      [] f = F_pic1 -> <<"P","i","c","1">>
      [] f = F_pic2 -> <<"P","i","c","2">>
      [] f = F_pic3 -> <<"P","i","c","3">>
      [] f = F_pic4 -> <<"P","i","c","4">>
      [] f = F_pictures -> <<"P","i","c","t","u","r","e","s">>
      [] f = F_subtopics -> <<"S","u","b","t","o","p","i","c","s">>
      [] f = F_cost -> <<"C","o","s","t">>
      [] f = F_why -> <<"W","h","y">>
      [] f = F_faq -> <<"F","A","Q">>
      [] OTHER -> f

\* cellB.toLowerCase().trim() === mappedFieldId.toLowerCase()
KeyMatches(row, f) ==
    trim(toLowerCase(Cell(row, 1))) = toLowerCase(mapFieldId(f))

\* if (!row || row.length < 2) continue
SkippedRow(row) == Len(row) < 2

\* The search loop from data row i (the header is row 1); 0 when it ends
\* without a match.
RECURSIVE FindPromptRow(_, _, _)
FindPromptRow(sheet, f, i) ==
    IF i > Len(sheet) THEN 0
    ELSE IF ~SkippedRow(sheet[i]) /\ KeyMatches(sheet[i], f) THEN i
    ELSE FindPromptRow(sheet, f, i + 1)

\* The loop with the header row searched too.
FindFieldFromHeader(sheet, f) == FindPromptRow(sheet, f, 1)

\* for (let i = 1; i < rows.length; i++): the header row is skipped.
FindField(sheet, f) == FindPromptRow(sheet, f, 2)

PromptFailure(why, f) ==
    [found |-> FALSE, hasPrompt |-> FALSE, prompt |-> <<>>,
     hasExample |-> FALSE, example |-> <<>>,
     error |-> [kind |-> why, fieldId |-> f]]

getPromptFromSheets(sheet, f, e) ==
    IF ~e.credentials THEN PromptFailure("credentials not configured", <<>>)
    ELSE IF ~e.sheetId THEN PromptFailure("sheet id not configured", <<>>)
    ELSE IF ~e.accessToken THEN PromptFailure("no access token", <<>>)
    ELSE IF e.fetch = "throws" THEN PromptFailure("api error", <<>>)
    ELSE IF Len(sheet) = 0 THEN PromptFailure("no data", <<>>)
    ELSE LET i == FindField(sheet, f)
         IN  IF i = 0 THEN PromptFailure("field not found", f)
             ELSE IF Cell(sheet[i], 2) = <<>>
             THEN PromptFailure("found but prompt is empty", f)
             ELSE [found |-> TRUE, hasPrompt |-> TRUE,
                   prompt |-> Cell(sheet[i], 2),
                   hasExample |-> Cell(sheet[i], 3) # <<>>,
                   example |-> Cell(sheet[i], 3),
                   error |-> [kind |-> "none", fieldId |-> <<>>]]

\* The error string of a result of getPromptFromSheets.
PromptErrorText(error) ==
    CASE error.kind = "field not found" ->
            <<"F","i","e","l","d"," ","\"">> \o error.fieldId \o <<"\""," ","(","m","a","p","p","e","d"," ","t","o"," ","\"">>
               \o mapFieldId(error.fieldId) \o <<"\"",")"," ","n","o","t"," ","f","o","u","n","d"," ","i","n"," ","P","r","o","m","p","t","s"," ","t","a","b">>
      [] error.kind = "found but prompt is empty" ->
            <<"F","i","e","l","d"," ","\"">> \o error.fieldId \o <<"\""," ","f","o","u","n","d"," ","b","u","t"," ","p","r","o","m","p","t"," ","i","s"," ","e","m","p","t","y">>
      [] error.kind = "no data" -> <<"N","o"," ","d","a","t","a"," ","f","o","u","n","d"," ","i","n"," ","P","r","o","m","p","t","s"," ","t","a","b">>
      [] error.kind = "credentials not configured" ->
            <<"G","o","o","g","l","e"," ","O","A","u","t","h"," ","c","r","e","d","e","n","t","i","a","l","s"," ","n","o","t"," ","c","o","n","f","i","g","u","r","e","d">>
      [] error.kind = "sheet id not configured" ->
            <<"G","O","O","G","L","E","_","S","H","E","E","T","_","I","D"," ","n","o","t"," ","c","o","n","f","i","g","u","r","e","d">>
      [] error.kind = "no access token" -> <<"N","o"," ","a","c","c","e","s","s"," ","t","o","k","e","n"," ","p","r","o","v","i","d","e","d">>
      [] error.kind = "api error" -> <<"U","n","k","n","o","w","n"," ","e","r","r","o","r">>
      [] OTHER -> <<>>

MaxPromptRows == 2

\* Column B cells of the Prompts tab.
PromptKeys == { <<"C","o","s","t">>, <<"c","o","s","t"," ">>, <<"W","h","y">> }

\* Data rows of Prompts!B:D: the key alone (the API drops trailing empty
\* cells), key and prompt, key, prompt and example, and an empty prompt
\* before an example.
PromptRows ==
    { <<k>> : k \in PromptKeys }
      \cup { <<k, <<"p">> >> : k \in PromptKeys }
      \cup { <<k, <<"q">>, <<"e">> >> : k \in PromptKeys }
      \cup { <<k, <<>>, <<"e">> >> : k \in PromptKeys }
      \cup { <<>> }

PromptHeaders ==
    { << <<"F","i","e","l","d">>, <<"P">>, <<"E">> >>,
      << <<"C","o","s","t">>, <<"h">> >> }

PromptSheets ==
    { <<>> } \cup { <<h>> \o d : h \in PromptHeaders,
                                 d \in SeqsUpTo(PromptRows, MaxPromptRows) }

PromptFieldIds == { F_cost, F_why, F_faq }

InitPrompt ==
    /\ handler = "prompt"
    /\ pc = "start"
    /\ ClassifyIdle
    /\ GenerateIdle
    /\ PictureIdle
    /\ BatchIdle
    /\ TokenIdle
    /\ UiIdle
    /\ keyword = <<>>
    /\ response = NoResponse
    /\ \/ /\ rows \in PromptSheets
          /\ fieldId \in PromptFieldIds
          /\ env = SheetEnvOk
       \/ /\ rows = << <<"F">>, << <<"C","o","s","t">>, <<"p">> >> >>
          /\ fieldId = F_cost
          /\ env \in SheetEnvs

\* getPromptFromSheets(fieldId, accessToken)
GetPromptFromSheets ==
    /\ handler = "prompt"
    /\ pc = "start"
    /\ response' = getPromptFromSheets(rows, fieldId, env)
    /\ pc' = "done"
    /\ UNCHANGED <<handler, keyword, env, rows, fieldId, classifyVars,
                   batchVars, tokenVars, generateVars, pictureVars,
                   uiVars>>

NextPrompt == GetPromptFromSheets

SpecPrompt == InitPrompt /\ [][NextPrompt]_vars

\* Data rows whose key cell is the mapped field name, letter case ignored.
KeyRows(sheet, f) ==
    {i \in 2..Len(sheet) :
        trim(toLowerCase(Cell(sheet[i], 1))) = toLowerCase(mapFieldId(f))}

FirstKeyRow(sheet, f) ==
    CHOOSE i \in KeyRows(sheet, f) : \A j \in KeyRows(sheet, f) : i <= j

\* Data rows whose key cell, untrimmed, equals the mapped field name, letter
\* case ignored.
ExactKeyRows(sheet, f) ==
    {i \in 2..Len(sheet) :
        toLowerCase(Cell(sheet[i], 1)) = toLowerCase(mapFieldId(f))}

\* C11 as stated: for every sheet in which no data row has a key cell equal,
\* letter case ignored, to the mapped field name, the result is found =
\* false with no prompt and an error string that contains the fieldId; a
\* match in the header row only counts as no match.
C11_NotFoundNamesField ==
    (handler = "prompt" /\ pc = "done" /\ env = SheetEnvOk
       /\ ExactKeyRows(rows, fieldId) = {}) =>
        /\ ~response.found
        /\ response.prompt = <<>>
        /\ includes(PromptErrorText(response.error), fieldId)

\* C11 amended: for every sheet with at least one row in which no data row
\* has a key cell equal, after trimming and letter case ignored, to the
\* mapped field name, the result is found = false with no prompt and the
\* not-found error that contains the fieldId; a match in the header row only
\* counts as no match.
C11_NotFoundNamesFieldAmended ==
    (handler = "prompt" /\ pc = "done" /\ env = SheetEnvOk
       /\ Len(rows) > 0 /\ KeyRows(rows, fieldId) = {}) =>
        /\ ~response.found
        /\ response.prompt = <<>>
        /\ response.error.kind = "field not found"
        /\ includes(PromptErrorText(response.error), fieldId)

\* The header row carries the mapped field name, data rows exist and none
\* of them does.
C11_Witness ==
    /\ handler = "prompt" /\ pc = "done" /\ env = SheetEnvOk
    /\ Len(rows) > 2
    /\ KeyRows(rows, fieldId) = {}
    /\ KeyMatches(rows[1], fieldId)
    /\ ~response.found

\* C10: when the first data row whose key matches the mapped field name has
\* an empty prompt cell (also when the row holds the key cell only), the
\* result is found = false with the 'found but prompt is empty' error; the
\* row is never skipped in favour of a later matching row.
C10_EmptyPromptReported ==
    (pc = "done" /\ env = SheetEnvOk /\ KeyRows(rows, fieldId) # {}
       /\ Cell(rows[FirstKeyRow(rows, fieldId)], 2) = <<>>) =>
        /\ ~response.found
        /\ response.error.kind = "found but prompt is empty"

(***************************************************************************)
(* Content generator: api/generate/[box]/route.ts                          *)
(***************************************************************************)

Digits == {"0","1","2","3","4","5","6","7","8","9"}

\* The regex class \w.
IsWordChar(c) ==
    \/ \E i \in DOMAIN Lowers : Lowers[i] = c \/ Uppers[i] = c
    \/ c \in Digits
    \/ c = "_"

\* The regex assertion \b before the 1-based position i.
WordBoundary(s, i) ==
    LET before == i > 1 /\ i - 1 <= Len(s) /\ IsWordChar(s[i - 1])
        after == i >= 1 /\ i <= Len(s) /\ IsWordChar(s[i])
    IN  before # after

\* The regex assertion ^ under the m flag.
LineStart(s, i) == i = 1 \/ s[i - 1] \in {"\n", "\r"}

MatchesAtIgnoreCase(s, p, at) ==
    /\ at >= 1
    /\ at + Len(p) - 1 <= Len(s)
    /\ \A j \in 1..Len(p) : LowerChar(s[at + j - 1]) = LowerChar(p[j])

RECURSIVE CountHashes(_, _)
CountHashes(s, i) ==
    IF i <= Len(s) /\ s[i] = "#" THEN 1 + CountHashes(s, i + 1) ELSE 0

RECURSIVE CountSpaces(_, _)
CountSpaces(s, i) ==
    IF i <= Len(s) /\ IsSpace(s[i]) THEN 1 + CountSpaces(s, i + 1) ELSE 0

PlaceholderLower == <<"{","{","k","e","y","w","o","r","d","}","}">>
PlaceholderUpper == <<"{","{","K","E","Y","W","O","R","D","}","}">>
PlaceholderSubtopics == <<"{","{","s","u","b","t","o","p","i","c","s","}","}">>

BareKeyword == <<"K","E","Y","W","O","R","D">>

\* Length of the match of a pattern at position i of s, 0 when there is none.
\*   "{{keyword}}/gi"  /{{keyword}}/gi      "{{KEYWORD}}/g"  /{{KEYWORD}}/g
\*   "\\bKEYWORD\\b/g"   /\bKEYWORD\b/g       "header"  /^#{1,6}\s+/gm
\*   "bold"  /\*\*/g                         "bullet"  /^\*\s+/gm
\*   "{{subtopics}}/gi"  /{{subtopics}}/gi
MatchLength(pattern, s, i) ==
    CASE pattern = "{{keyword}}/gi" ->
            IF MatchesAtIgnoreCase(s, PlaceholderLower, i)
            THEN Len(PlaceholderLower) ELSE 0
      [] pattern = "{{KEYWORD}}/g" ->
            IF MatchesAt(s, PlaceholderUpper, i)
            THEN Len(PlaceholderUpper) ELSE 0
      [] pattern = "\\bKEYWORD\\b/g" ->
            IF /\ MatchesAt(s, BareKeyword, i)
               /\ WordBoundary(s, i)
               /\ WordBoundary(s, i + Len(BareKeyword))
            THEN Len(BareKeyword) ELSE 0
      [] pattern = "{{subtopics}}/gi" ->
            IF MatchesAtIgnoreCase(s, PlaceholderSubtopics, i)
            THEN Len(PlaceholderSubtopics) ELSE 0
      [] pattern = "header" ->
            LET h == CountHashes(s, i)
                w == CountSpaces(s, i + h)
            IN  IF LineStart(s, i) /\ h >= 1 /\ h <= 6 /\ w >= 1
                THEN h + w ELSE 0
      [] pattern = "bold" ->
            IF MatchesAt(s, <<"*","*">>, i) THEN 2 ELSE 0
      [] pattern = "bullet" ->
            LET w == CountSpaces(s, i + 1)
            IN  IF LineStart(s, i) /\ i <= Len(s) /\ s[i] = "*" /\ w >= 1
                THEN 1 + w ELSE 0

\* The replacement text of one match (GetSubstitution): "$$" stands for
\* "$", "$&" for the matched text, "$`" and "$'" for the text before and
\* after the match; the patterns used here have no groups, so every other
\* "$" stands for itself.  The match is s[i .. i + n - 1].
RECURSIVE GetSubstitution(_, _, _, _, _)
GetSubstitution(by, k, s, i, n) ==
    IF k > Len(by) THEN <<>>
    ELSE IF by[k] = "$" /\ k < Len(by) /\ by[k + 1] = "$"
    THEN <<"$">> \o GetSubstitution(by, k + 2, s, i, n)
    ELSE IF by[k] = "$" /\ k < Len(by) /\ by[k + 1] = "&"
    THEN SubSeq(s, i, i + n - 1) \o GetSubstitution(by, k + 2, s, i, n)
    ELSE IF by[k] = "$" /\ k < Len(by) /\ by[k + 1] = "`"
    THEN SubSeq(s, 1, i - 1) \o GetSubstitution(by, k + 2, s, i, n)
    ELSE IF by[k] = "$" /\ k < Len(by) /\ by[k + 1] = "'"
    THEN SubSeq(s, i + n, Len(s)) \o GetSubstitution(by, k + 2, s, i, n)
    ELSE <<by[k]>> \o GetSubstitution(by, k + 1, s, i, n)

\* String.prototype.replace with a global regex and a replacement string:
\* matches are taken left to right in s and never rescanned.
RECURSIVE ReplaceAll(_, _, _, _)
ReplaceAll(pattern, s, i, by) ==
    IF i > Len(s) THEN <<>>
    ELSE LET n == MatchLength(pattern, s, i)
         IN  IF n > 0
             THEN GetSubstitution(by, 1, s, i, n)
                    \o ReplaceAll(pattern, s, i + n, by)
             ELSE <<s[i]>> \o ReplaceAll(pattern, s, i + 1, by)

\* .replace(/{{keyword}}/gi, keyword).replace(/{{KEYWORD}}/g, keyword)
\* .replace(/\bKEYWORD\b/g, keyword)
SubstituteKeyword(text, kw) ==
    ReplaceAll("\\bKEYWORD\\b/g",
        ReplaceAll("{{KEYWORD}}/g",
            ReplaceAll("{{keyword}}/gi", text, 1, kw), 1, kw), 1, kw)

ExampleHeading == <<"\n","\n","E","x","a","m","p","l","e"," ","f","o","r","m","a","t",":","\n">>

\* The markdown clean-up of the model's answer.
StripMarkdown(content) ==
    trim(ReplaceAll("bullet",
            ReplaceAll("bold",
                ReplaceAll("header", content, 1, <<>>), 1, <<>>), 1, <<>>))

\* String.prototype.split with a one-character separator.
RECURSIVE SplitOn(_, _, _, _)
SplitOn(sep, s, i, piece) ==
    IF i > Len(s) THEN <<piece>>
    ELSE IF s[i] = sep THEN <<piece>> \o SplitOn(sep, s, i + 1, <<>>)
    ELSE SplitOn(sep, s, i + 1, Append(piece, s[i]))

\* Array.prototype.join with a one-character separator.
RECURSIVE JoinWith(_, _)
JoinWith(sep, parts) ==
    IF Len(parts) = 0 THEN <<>>
    ELSE IF Len(parts) = 1 THEN parts[1]
    ELSE parts[1] \o <<sep>> \o JoinWith(sep, Tail(parts))

\* content.split(' ')
SplitOnSpace(s, i, word) == SplitOn(" ", s, i, word)

\* words.join(' ')
JoinWithSpace(words) == JoinWith(" ", words)

smallWords ==
    { <<"a">>, <<"a","n">>, <<"t","h","e">>, <<"a","n","d">>, <<"o","r">>,
      <<"b","u","t">>, <<"i","n">>, <<"o","n">>, <<"a","t">>, <<"t","o">>,
      <<"f","o","r">>, <<"o","f">>, <<"w","i","t","h">>, <<"b","y">> }

\* word.charAt(0).toUpperCase() + word.slice(1).toLowerCase()
Capitalize(word) ==
    [i \in DOMAIN word |-> IF i = 1 THEN UpperChar(word[i]) ELSE LowerChar(word[i])]

\* content.charAt(0).toUpperCase() + content.slice(1)
UpperFirst(s) ==
    [i \in DOMAIN s |-> IF i = 1 THEN UpperChar(s[i]) ELSE s[i]]

\* The callback of content.split(' ').map(...) in the title branch.
TitleCaseWord(word, content) ==
    IF toLowerCase(word) \in smallWords /\ indexOf(content, word) > 0
    THEN toLowerCase(word)
    ELSE Capitalize(word)

\* The title branch of the post-processing (lines 284-299).
TitleCase(content) ==
    LET words == SplitOnSpace(content, 1, <<>>)
        cased == [i \in DOMAIN words |-> TitleCaseWord(words[i], content)]
    IN  UpperFirst(JoinWithSpace(cased))

GenerationFailed == <<"C","o","n","t","e","n","t"," ","g","e","n","e","r","a","t","i","o","n"," ","f","a","i","l","e","d">>

\* The answer after the markdown clean-up and the second substitution.
CleanContent(answer, kw) ==
    SubstituteKeyword(
        StripMarkdown(IF answer = <<>> THEN GenerationFailed ELSE answer), kw)

\* The content returned by generateContentWithOpenAI.
PostProcess(answer, kw, f) ==
    IF f = F_title
    THEN TitleCase(CleanContent(answer, kw))
    ELSE CleanContent(answer, kw)

validFields ==
    { F_title, F_intro, F_pic1, F_pic2, F_pic3, F_pic4,
      F_subtopics, F_cost, F_why, F_faq }

ErrorResponse(code, why) ==
    [status |-> code, ok |-> FALSE, output |-> <<>>, error |-> why]

\* The checks with the server's API key looked at first.
ValidateGenerateKeyFirst(kw, fl, f, e) ==
    IF ~e.openaiApiKey THEN ErrorResponse(500, "api key not configured")
    ELSE IF e.typeofKeyword # "string" \/ InvalidKeyword(kw)
    THEN ErrorResponse(400, "keyword required")
    ELSE IF fl \notin {"with subtopics", "no subtopics"}
    THEN ErrorResponse(400, "invalid flow")
    ELSE IF f \notin validFields THEN ErrorResponse(400, "invalid field")
    ELSE IF f = F_subtopics /\ fl # "with subtopics"
    THEN ErrorResponse(400, "subtopics field not available")
    ELSE IF ~e.accessToken THEN ErrorResponse(401, "authentication required")
    ELSE [status |-> 0]

\* The checks without the one for the access token.
ValidateGenerateNoTokenCheck(kw, fl, f, e) ==
    IF e.typeofKeyword # "string" \/ InvalidKeyword(kw)
    THEN ErrorResponse(400, "keyword required")
    ELSE IF fl \notin {"with subtopics", "no subtopics"}
    THEN ErrorResponse(400, "invalid flow")
    ELSE IF f \notin validFields THEN ErrorResponse(400, "invalid field")
    ELSE IF f = F_subtopics /\ fl # "with subtopics"
    THEN ErrorResponse(400, "subtopics field not available")
    ELSE IF ~e.openaiApiKey THEN ErrorResponse(500, "api key not configured")
    ELSE [status |-> 0]

\* The checks POST /generate/{fieldId} makes before it fetches a prompt;
\* status 0 when the request passes them all.
ValidateGenerate(kw, fl, f, e) ==
    IF e.typeofKeyword # "string" \/ InvalidKeyword(kw)
    THEN ErrorResponse(400, "keyword required")
    ELSE IF fl \notin {"with subtopics", "no subtopics"}
    THEN ErrorResponse(400, "invalid flow")
    ELSE IF f \notin validFields THEN ErrorResponse(400, "invalid field")
    ELSE IF f = F_subtopics /\ fl # "with subtopics"
    THEN ErrorResponse(400, "subtopics field not available")
    ELSE IF ~e.openaiApiKey THEN ErrorResponse(500, "api key not configured")
    ELSE IF ~e.accessToken THEN ErrorResponse(401, "authentication required")
    ELSE [status |-> 0]

\* A handler that goes on whatever the resolver returned.
PromptUsableAlways(promptResult) == TRUE

\* promptResult.found && promptResult.prompt
PromptUsable(promptResult) == promptResult.found /\ promptResult.prompt # <<>>

\* The bullet character U+2022, written in ASCII here.
Bullet == "@"

\* The class [\u2022\-*\s] of item.replace(/^[...]+/, '').
IsBulletPrefixChar(c) == c \in {Bullet, "-", "*"} \/ IsSpace(c)

RECURSIVE StripBulletPrefix(_)
StripBulletPrefix(item) ==
    IF Len(item) > 0 /\ IsBulletPrefixChar(item[1])
    THEN StripBulletPrefix(Tail(item))
    ELSE item

\* Array.prototype.join with a separator of any length.
RECURSIVE JoinText(_, _)
JoinText(sep, parts) ==
    IF Len(parts) = 0 THEN <<>>
    ELSE IF Len(parts) = 1 THEN parts[1]
    ELSE parts[1] \o sep \o JoinText(sep, Tail(parts))

\* subtopics.map(item => bullet + ' ' + cleaned item).join('\n')
SubtopicsList(subtopics) ==
    JoinText(<<"\n">>,
        [i \in DOMAIN subtopics |->
            <<Bullet, " ">> \o trim(StripBulletPrefix(subtopics[i]))])

SubtopicsIntro ==
    <<"\n","\n","T","h","e"," ","f","o","l","l","o","w","i","n","g"," ","s",
      "u","b","t","o","p","i","c","s"," ","w","e","r","e"," ","f","o","u",
      "n","d"," ","f","o","r"," ">>

SubtopicsOutro ==
    <<"\n","\n","U","s","e"," ","t","h","e","s","e"," ","s","u","b","t","o",
      "p","i","c","s"," ","t","o"," ","g","e","n","e","r","a","t","e"," ",
      "t","h","e"," ","c","o","n","t","e","n","t"," ","a","s"," ","s","p",
      "e","c","i","f","i","e","d"," ","a","b","o","v","e",".">>

\* fieldId === 'subtopics' && subtopics && subtopics.length > 0
UsesSubtopics(f, subtopics) == f = F_subtopics /\ Len(subtopics) > 0

\* The subtopics step on the substituted template (lines 158-167).
WithSubtopics(body, f, kw, subtopics) ==
    IF UsesSubtopics(f, subtopics)
    THEN LET list == SubtopicsList(subtopics)
             replaced == ReplaceAll("{{subtopics}}/gi", body, 1, list)
         IN  IF ~includes(replaced, list)
             THEN replaced \o SubtopicsIntro \o kw \o <<":", "\n">> \o list
                    \o SubtopicsOutro
             ELSE replaced
    ELSE body

\* The example as it is appended (lines 170-181).
ExampleText(example, f, kw, subtopics) ==
    LET substituted == SubstituteKeyword(example, kw)
    IN  IF UsesSubtopics(f, subtopics)
        THEN ReplaceAll("{{subtopics}}/gi", substituted, 1,
                        SubtopicsList(subtopics))
        ELSE substituted

CompetitorIntro ==
    <<"\n","\n","C","o","m","p","e","t","i","t","o","r"," ","U","R","L","s",
      " ","t","o"," ","r","e","f","e","r","e","n","c","e"," ","f","o","r",
      " ","i","n","s","p","i","r","a","t","i","o","n"," ","(","b","u","t",
      " ","c","r","e","a","t","e"," ","o","r","i","g","i","n","a","l"," ",
      "c","o","n","t","e","n","t",")",":"," ">>

\* The competitor context built for any field that is given URLs.
CompetitorContextAnyField(f, competitorUrls) ==
    IF Len(competitorUrls) > 0
    THEN CompetitorIntro \o JoinText(<<",", " ">>, competitorUrls)
    ELSE <<>>

\* competitorContext (lines 136-140): empty unless the field is faq and
\* URLs were supplied.
CompetitorContext(f, competitorUrls) ==
    IF f = F_faq /\ Len(competitorUrls) > 0
    THEN CompetitorIntro \o JoinText(<<",", " ">>, competitorUrls)
    ELSE <<>>

\* fieldId.startsWith('pic')
IsPictureField(f) == MatchesAt(f, <<"p","i","c">>, 1)

\* The user prompt before the block on sibling pictures (lines 152-189).
PromptBeforePictures(promptData, kw, f, req) ==
    LET body == WithSubtopics(SubstituteKeyword(promptData.prompt, kw),
                              f, kw, req.subtopics)
        withExample ==
            IF promptData.example # <<>>
            THEN body \o ExampleHeading
                   \o ExampleText(promptData.example, f, kw, req.subtopics)
            ELSE body
    IN  withExample \o CompetitorContext(f, req.competitorUrls)

\* keyThemes (lines 212-214).
keyThemes ==
    << <<"s","t","r","e","s","s">>,
       <<"f","r","e","e">>,
       <<"e","c","o">>,
       <<"f","r","i","e","n","d","l","y">>,
       <<"s","a","f","e">>,
       <<"d","a","m","a","g","e">>,
       <<"f","a","s","t">>,
       <<"e","f","f","i","c","i","e","n","t">>,
       <<"p","r","o","f","e","s","s","i","o","n","a","l">>,
       <<"a","f","f","o","r","d","a","b","l","e">>,
       <<"r","e","l","i","a","b","l","e">>,
       <<"c","o","n","v","e","n","i","e","n","t">>,
       <<"s","i","m","p","l","i","f","i","e","d">>,
       <<"s","t","r","e","a","m","l","i","n","e","d">>,
       <<"w","o","r","r","y">>,
       <<"s","e","a","m","l","e","s","s">>,
       <<"e","a","s","y">>,
       <<"q","u","i","c","k">>,
       <<"d","i","s","p","o","s","a","l">>,
       <<"r","e","c","y","c","l","i","n","g">> >>

RECURSIVE SkipWhitespace(_, _)
SkipWhitespace(s, i) ==
    IF i <= Len(s) /\ IsSpace(s[i]) THEN SkipWhitespace(s, i + 1) ELSE i

\* String.prototype.split(/\s+/)
RECURSIVE SplitOnWhitespace(_, _, _)
SplitOnWhitespace(s, i, piece) ==
    IF i > Len(s) THEN <<piece>>
    ELSE IF IsSpace(s[i])
    THEN <<piece>> \o SplitOnWhitespace(s, SkipWhitespace(s, i), <<>>)
    ELSE SplitOnWhitespace(s, i + 1, Append(piece, s[i]))

\* Array.from(new Set(items)): first occurrences, in order.
RECURSIVE Dedupe(_, _)
Dedupe(items, seen) ==
    IF Len(items) = 0 THEN seen
    ELSE IF \E k \in DOMAIN seen : seen[k] = items[1]
    THEN Dedupe(Tail(items), seen)
    ELSE Dedupe(Tail(items), Append(seen, items[1]))

\* The entries that count, the field's own entry among them.
SiblingEntriesWithOwn(f, previousPictures) ==
    SelectSeq(previousPictures, LAMBDA e : e.value # <<>>)

\* Object.entries(previousPictures) with key !== fieldId && value.
SiblingEntries(f, previousPictures) ==
    SelectSeq(previousPictures, LAMBDA e : e.key # f /\ e.value # <<>>)

\* previousDescriptions (lines 194-197).
PreviousDescriptions(f, previousPictures) ==
    LET siblings == SiblingEntries(f, previousPictures)
    IN  JoinText(<<"\n">>,
            [i \in DOMAIN siblings |->
                <<"[">> \o siblings[i].key \o <<"]", ":", " ">>
                  \o siblings[i].value])

\* value.split('\n')[0]
FirstLine(value) == SplitOn("\n", value, 1, <<>>)[1]

\* usedPhrases (lines 204-208).
UsedPhrases(f, previousPictures) ==
    LET siblings == SiblingEntries(f, previousPictures)
        firstLines == [i \in DOMAIN siblings |->
                          toLowerCase(FirstLine(siblings[i].value))]
    IN  SelectSeq(firstLines, LAMBDA line : line # <<>>)

\* The themes pushed for one word, in the order of keyThemes.
WordThemes(word) == SelectSeq(keyThemes, LAMBDA theme : includes(word, theme))

\* The themes pushed for one description (lines 211-222).
ValueThemes(value) ==
    LET words == SplitOnWhitespace(toLowerCase(value), 1, <<>>)
    IN  Concat([i \in DOMAIN words |-> WordThemes(words[i])])

\* usedThemes
UsedThemes(f, previousPictures) ==
    LET siblings == SiblingEntries(f, previousPictures)
    IN  Concat([i \in DOMAIN siblings |-> ValueThemes(siblings[i].value)])

\* uniqueThemes
UniqueThemes(f, previousPictures) == Dedupe(UsedThemes(f, previousPictures), <<>>)

UniquenessHeading ==
    <<"\n","\n","C","R","I","T","I","C","A","L"," ","U","N","I","Q","U","E",
      "N","E","S","S"," ","R","E","Q","U","I","R","E","M","E","N","T",":",
      " ","Y","o","u"," ","M","U","S","T"," ","c","r","e","a","t","e"," ",
      "a"," ","c","o","m","p","l","e","t","e","l","y"," ","d","i","f","f",
      "e","r","e","n","t"," ","d","e","s","c","r","i","p","t","i","o","n",
      ".","\n","\n">>

PhrasesHeading ==
    <<"A","L","R","E","A","D","Y"," ","U","S","E","D"," ","T","I","T","L",
      "E","S","/","P","H","R","A","S","E","S"," ","(","D","O"," ","N","O",
      "T"," ","R","E","P","E","A","T"," ","S","I","M","I","L","A","R"," ",
      "C","O","N","C","E","P","T","S",")",":","\n">>

ThemesHeading ==
    <<"A","V","O","I","D"," ","A","L","L"," ","T","H","E","S","E"," ","T",
      "H","E","M","E","S","/","W","O","R","D","S",":"," ">>

DescriptionsHeading ==
    <<"P","r","e","v","i","o","u","s"," ","d","e","s","c","r","i","p","t",
      "i","o","n","s"," ","f","o","r"," ","r","e","f","e","r","e","n","c",
      "e"," ","(","D","O"," ","N","O","T"," ","C","O","P","Y"," ","O","R",
      " ","R","E","P","E","A","T",")",":","\n">>

UniquenessClosing ==
    <<"G","e","n","e","r","a","t","e"," ","a"," ","C","O","M","P","L","E",
      "T","E","L","Y"," ","U","N","I","Q","U","E"," ","d","e","s","c","r",
      "i","p","t","i","o","n"," ","w","i","t","h"," ","D","I","F","F","E",
      "R","E","N","T"," ","t","h","e","m","e","s",","," ","b","e","n","e",
      "f","i","t","s",","," ","a","n","d"," ","f","o","c","u","s"," ","a",
      "r","e","a","s","."," ","D","o"," ","n","o","t"," ","u","s","e"," ",
      "\"","s","t","r","e","s","s","-","f","r","e","e","\"",","," ","\"",
      "w","o","r","r","y","-","f","r","e","e","\"",","," ","\"","s","e","a",
      "m","l","e","s","s","\""," ","o","r"," ","s","i","m","i","l","a","r",
      " ","c","o","n","c","e","p","t","s"," ","i","f"," ","t","h","e","y",
      "'","v","e"," ","b","e","e","n"," ","u","s","e","d","."," ","B","e",
      " ","c","r","e","a","t","i","v","e"," ","a","n","d"," ","e","x","p",
      "l","o","r","e"," ","e","n","t","i","r","e","l","y"," ","n","e","w",
      " ","a","n","g","l","e","s",".">>

\* The block appended for a picture field with sibling outputs
\* (lines 192-242).
UniquenessBlock(f, previousPictures) ==
    LET descriptions == PreviousDescriptions(f, previousPictures)
        phrases == UsedPhrases(f, previousPictures)
        themes == UniqueThemes(f, previousPictures)
    IN  IF IsPictureField(f) /\ descriptions # <<>>
        THEN UniquenessHeading
               \o (IF Len(phrases) > 0
                   THEN PhrasesHeading \o JoinText(<<"\n">>, phrases)
                          \o <<"\n", "\n">>
                   ELSE <<>>)
               \o (IF Len(themes) > 0
                   THEN ThemesHeading \o JoinText(<<",", " ">>, themes)
                          \o <<"\n", "\n">>
                   ELSE <<>>)
               \o DescriptionsHeading \o descriptions \o <<"\n", "\n">>
               \o UniquenessClosing
        ELSE <<>>

\* The user prompt sent to the model.
BuildPrompt(promptData, kw, f, req) ==
    PromptBeforePictures(promptData, kw, f, req)
      \o UniquenessBlock(f, req.previousPictures)

SystemHead ==
    <<"Y","o","u"," ","a","r","e"," ","a"," ","p","r","o","f","e","s","s",
      "i","o","n","a","l"," ","c","o","n","t","e","n","t"," ","w","r","i",
      "t","e","r","."," ","T","h","e"," ","k","e","y","w","o","r","d"," ",
      "f","o","r"," ","t","h","i","s"," ","c","o","n","t","e","n","t"," ",
      "i","s"," ","\"">>

SystemMiddle ==
    <<"\"","."," ","N","e","v","e","r"," ","o","u","t","p","u","t"," ","t",
      "h","e"," ","w","o","r","d"," ","\"","K","E","Y","W","O","R","D","\"",
      " ","i","n"," ","u","p","p","e","r","c","a","s","e"," ","-"," ","a",
      "l","w","a","y","s"," ","r","e","p","l","a","c","e"," ","i","t"," ",
      "w","i","t","h"," ","t","h","e"," ","a","c","t","u","a","l"," ","k",
      "e","y","w","o","r","d",":"," ","\"">>

SystemTail ==
    <<"\"",".">>

PictureRules ==
    <<" ","C","R","I","T","I","C","A","L"," ","U","N","I","Q","U","E","N",
      "E","S","S"," ","R","U","L","E","S",":","\n","1","."," ","N","E","V",
      "E","R"," ","u","s","e"," ","\"","s","t","r","e","s","s","-","f","r",
      "e","e","\"",","," ","\"","s","t","r","e","s","s"," ","f","r","e","e",
      "\"",","," ","\"","w","o","r","r","y","-","f","r","e","e","\"",",",
      " ","\"","h","a","s","s","l","e","-","f","r","e","e","\""," ","o","r",
      " ","s","i","m","i","l","a","r"," ","p","h","r","a","s","e","s"," ",
      "i","f"," ","A","N","Y"," ","o","t","h","e","r"," ","p","i","c","t",
      "u","r","e"," ","u","s","e","s"," ","t","h","e","m","\n","2","."," ",
      "N","E","V","E","R"," ","u","s","e"," ","\"","s","e","a","m","l","e",
      "s","s","\"",","," ","\"","s","m","o","o","t","h","\"",","," ","\"",
      "e","a","s","y","\""," ","i","f"," ","a","l","r","e","a","d","y"," ",
      "u","s","e","d","\n","3","."," ","N","E","V","E","R"," ","u","s","e",
      " ","\"","e","c","o","-","f","r","i","e","n","d","l","y","\"",","," ",
      "\"","e","n","v","i","r","o","n","m","e","n","t","a","l","l","y","\"",
      " ","i","f"," ","a","l","r","e","a","d","y"," ","u","s","e","d"," ",
      " ","\n","4","."," ","E","a","c","h"," ","p","i","c","t","u","r","e",
      " ","M","U","S","T"," ","f","o","c","u","s"," ","o","n"," ","a"," ",
      "C","O","M","P","L","E","T","E","L","Y"," ","D","I","F","F","E","R",
      "E","N","T"," ","b","e","n","e","f","i","t"," ","o","r"," ","a","s",
      "p","e","c","t","\n","5","."," ","D","O"," ","N","O","T"," ","r","e",
      "p","e","a","t"," ","A","N","Y"," ","k","e","y"," ","p","h","r","a",
      "s","e","s"," ","o","r"," ","t","h","e","m","e","s"," ","f","r","o",
      "m"," ","o","t","h","e","r"," ","p","i","c","t","u","r","e","s","\n",
      "6","."," ","B","e"," ","c","r","e","a","t","i","v","e"," ","-"," ",
      "u","s","e"," ","u","n","i","q","u","e"," ","a","n","g","l","e","s",
      " ","l","i","k","e",":"," ","s","p","e","e","d",","," ","l","o","c",
      "a","l"," ","e","x","p","e","r","t","i","s","e",","," ","f","a","m",
      "i","l","y","-","o","w","n","e","d",","," ","l","i","c","e","n","s",
      "e","d","/","i","n","s","u","r","e","d",","," ","s","c","h","e","d",
      "u","l","i","n","g"," ","f","l","e","x","i","b","i","l","i","t","y",
      ","," ","t","r","a","n","s","p","a","r","e","n","t"," ","p","r","i",
      "c","i","n","g",","," ","e","q","u","i","p","m","e","n","t"," ","q",
      "u","a","l","i","t","y",","," ","t","e","a","m"," ","e","x","p","e",
      "r","i","e","n","c","e",","," ","s","e","r","v","i","c","e"," ","a",
      "r","e","a","s",","," ","g","u","a","r","a","n","t","e","e","s",",",
      " ","e","t","c",".","\n","7","."," ","N","E","V","E","R"," ","s","t",
      "a","r","t"," ","m","u","l","t","i","p","l","e"," ","d","e","s","c",
      "r","i","p","t","i","o","n","s"," ","w","i","t","h"," ","t","h","e",
      " ","s","a","m","e"," ","s","t","r","u","c","t","u","r","e"," ","o",
      "r"," ","p","h","r","a","s","e">>

\* The system message of the generate call (lines 248-258).
SystemInstruction(kw, f) ==
    SystemHead \o kw \o SystemMiddle \o kw \o SystemTail
      \o (IF IsPictureField(f) THEN PictureRules ELSE <<>>)

MaxPieces == 3

MaxWords == 4

\* The server's configuration, the state of the remote services and, of the
\* request body, the token's presence and typeof keyword.
GenerateEnvOk ==
    [openaiApiKey |-> TRUE, accessToken |-> TRUE, credentials |-> TRUE,
     sheetId |-> TRUE, fetch |-> "ok", openai |-> "ok",
     typeofKeyword |-> "string"]

GenerateEnvs ==
    [openaiApiKey : BOOLEAN, accessToken : BOOLEAN, credentials : BOOLEAN,
     sheetId : BOOLEAN, fetch : {"ok", "throws"}, openai : {"ok", "throws"},
     typeofKeyword : {"string", "number"}]

PromptHeader == << <<"F","i","e","l","d">>, <<"P">>, <<"E">> >>

\* Pieces of prompt templates: the placeholders in their spellings, plain
\* text, and the two halves of an opened and a closed placeholder.
TemplatePieces ==
    { PlaceholderLower, PlaceholderUpper, BareKeyword, <<"{","{","K","e","y","w","o","r","d","}","}">>,
      <<" ">>, <<"x">>, <<"{","{","k","e","y">>, <<"}","}">> }

Templates ==
    { Concat(ps) : ps \in SeqsUpTo(TemplatePieces, MaxPieces) }

\* Keywords: a plain one, one that spells the bare placeholder, and one
\* that completes a placeholder opened in the template.
GenerateKeywords == { <<"a","b">>, <<"K","E","Y","W","O","R","D"," ","x">>, <<"w","o","r","d">> }

\* Words of the model's answers for the title field.
TitleWords == { <<"a">>, <<"a","t">>, <<"T","H","E">>, <<"c","A","t">>, <<>> }

TitleReplies ==
    { JoinWithSpace(ws) : ws \in SeqsUpTo(TitleWords, MaxWords) }
      \cup { <<"#","#"," ","a"," ","c","a","t">>, <<"*","*","T","h","e","*","*"," ","c","a","t"," ","o","f"," ","a">>, <<"*"," ","b","y"," ","K","E","Y","W","O","R","D">>, BareKeyword }

TitleSheet == << PromptHeader, << <<"T","i","t","l","e">>, <<"t">> >> >>

CostSheet(template, example) ==
    << PromptHeader, << <<"C","o","s","t">>, template, example >> >>

MaxUrls == 2

MaxSubtopics == 2

\* Fields of requests that carry context: the FAQ field, the subtopics
\* field, a picture field and fields that take no context.
ContextFields == { F_faq, F_cost, F_subtopics, F_pic2, F_title, F_intro }

\* Templates without the subtopics placeholder, with one and with two.
ContextTemplates ==
    { <<"t">>, BareKeyword,
      <<"{","{","S","u","b","T","o","p","i","c","s","}","}"," ","x">>,
      PlaceholderSubtopics \o <<" ">> \o PlaceholderSubtopics }

ContextExamples == { <<>>, <<"e"," ","{","{","s","u","b","t","o","p","i","c","s","}","}">> }

FieldSheet(f, template, example) ==
    << PromptHeader, << mapFieldId(f), template, example >> >>

CompetitorUrlLists ==
    SeqsUpTo({ <<"a",".","c">>, <<"b",".","c">> }, MaxUrls)

\* Subtopics as the classifier returns them, with and without a bullet, and
\* one that holds dollar signs.
SubtopicLists ==
    SeqsUpTo({ <<"-"," ","o","n","e">>, <<"t","w","o"," ">>,
               <<"$","$"," ","x">> }, MaxSubtopics)

\* The largest number of entries of previousPictures.
MaxPrevious == 2

\* Outputs of picture fields: the scenario of the specification, a theme
\* inside a longer word in capitals, an empty first line, blanks only, and
\* the empty output of a field not generated yet.
PictureTexts ==
    { <<"S","t","r","e","s","s","-","F","r","e","e"," ","H","a","u","l","i","n","g","\n","W","e"," ","m","a","k","e"," ","i","t"," ","e","a","s","y",".">>,
      <<"E","c","o"," ","F","R","E","E","d","o","m","\t","s","t","r","e","s","s">>,
      <<"\n","f","a","s","t">>,
      <<" ">>,
      <<>> }

PictureEntries == [key : {F_pic1, F_pic2, F_pic3}, value : PictureTexts]

\* Object.entries(previousPictures): entries with pairwise distinct keys.
PreviousPictureSets ==
    { pp \in SeqsUpTo(PictureEntries, MaxPrevious) :
        \A i, j \in DOMAIN pp : i # j => pp[i].key # pp[j].key }

\* Requests with competitor URLs and subtopics, and requests with sibling
\* pictures.
RequestContexts ==
    [competitorUrls : CompetitorUrlLists,
     previousPictures : {<<>>},
     subtopics : SubtopicLists]

PictureContexts ==
    [competitorUrls : { <<>> },
     previousPictures : PreviousPictureSets,
     subtopics : {<<>>}]

InitGenerate ==
    /\ handler = "generate"
    /\ pc = "start"
    /\ ClassifyIdle
    /\ PictureIdle
    /\ BatchIdle
    /\ TokenIdle
    /\ UiIdle
    /\ response = NoResponse
    /\ prompt = <<>>
    /\ modelCalls = 0
    /\ promptFetches = 0
    /\ system = <<>>
    /\ \/ /\ fieldId = F_cost
          /\ flow = "no subtopics"
          /\ env = GenerateEnvOk
          /\ request = NoRequestContext
          /\ reply = <<"o","k">>
          /\ keyword \in GenerateKeywords
          /\ \E t \in Templates : rows = CostSheet(t, <<>>)
       \/ /\ fieldId = F_cost
          /\ flow = "with subtopics"
          /\ env = GenerateEnvOk
          /\ request = NoRequestContext
          /\ reply \in { <<>>, BareKeyword }
          /\ keyword \in GenerateKeywords
          /\ \E t \in {BareKeyword, <<"x">>}, x \in TemplatePieces :
                rows = CostSheet(t, x)
       \/ /\ fieldId = F_title
          /\ flow = "no subtopics"
          /\ env = GenerateEnvOk
          /\ request = NoRequestContext
          /\ reply \in TitleReplies
          /\ keyword = <<"o","f">>
          /\ rows = TitleSheet
       \/ /\ fieldId \in { F_title, F_subtopics, <<"z","z">> }
          /\ flow \in { "with subtopics", "no subtopics", "", "other" }
          /\ env \in GenerateEnvs
          /\ request = NoRequestContext
          /\ reply = <<"o","k">>
          /\ keyword \in { <<>>, <<" ">>, <<"a","b">> }
          /\ rows \in { TitleSheet, <<PromptHeader>> }
       \/ /\ fieldId \in ContextFields
          /\ flow = "with subtopics"
          /\ env = GenerateEnvOk
          /\ reply = <<"o","k">>
          /\ keyword = <<"a","b">>
          /\ \E t \in ContextTemplates, x \in ContextExamples :
                rows = FieldSheet(fieldId, t, x)
          /\ request \in RequestContexts
       \/ /\ fieldId \in { F_pic1, F_pic2, F_cost }
          /\ flow = "no subtopics"
          /\ env = GenerateEnvOk
          /\ reply = <<"o","k">>
          /\ keyword = <<"a","b">>
          /\ rows = FieldSheet(fieldId, <<"t">>, <<>>)
          /\ request \in PictureContexts

\* POST /generate/{fieldId} up to the call of the model: validation, the
\* prompt fetch and the assembly of the prompt.
GenerateRequest ==
    /\ handler = "generate"
    /\ pc = "start"
    /\ LET invalid == ValidateGenerate(keyword, flow, fieldId, env)
           promptResult == getPromptFromSheets(rows, fieldId, env)
       IN  IF invalid.status # 0
           THEN /\ response' = invalid
                /\ pc' = "done"
                /\ UNCHANGED <<prompt, system, modelCalls, promptFetches>>
           ELSE IF ~PromptUsable(promptResult)
           THEN /\ response' = ErrorResponse(404, promptResult.error.kind)
                /\ pc' = "done"
                /\ promptFetches' = promptFetches + 1
                /\ UNCHANGED <<prompt, system, modelCalls>>
           ELSE /\ prompt' = BuildPrompt(promptResult, keyword, fieldId, request)
                /\ system' = SystemInstruction(keyword, fieldId)
                /\ modelCalls' = modelCalls + 1
                /\ promptFetches' = promptFetches + 1
                /\ pc' = "calling"
                /\ UNCHANGED response
    /\ UNCHANGED <<handler, keyword, env, rows, fieldId, flow, request, reply,
                   classifyVars, batchVars, tokenVars, pictureVars,
                   uiVars>>

\* The model answers (or the call throws) and the answer is post-processed.
GenerateReply ==
    /\ handler = "generate"
    /\ pc = "calling"
    /\ response' =
          IF env.openai = "throws"
          THEN ErrorResponse(500, "internal server error")
          ELSE [status |-> 200, ok |-> TRUE,
                output |-> PostProcess(reply, keyword, fieldId),
                error |-> "none"]
    /\ pc' = "done"
    /\ UNCHANGED <<handler, keyword, env, rows, fieldId, flow, reply, prompt,
                   request, system, modelCalls, promptFetches,
                   classifyVars, batchVars, tokenVars, pictureVars,
                   uiVars>>

NextGenerate == GenerateRequest \/ GenerateReply

SpecGenerate == InitGenerate /\ [][NextGenerate]_vars

\* C7: in a generated title every small word that is not the first word
\* comes out lowercase, every other word comes out capitalised (first letter
\* uppercase, the rest lowercase), and the first character of the title is
\* uppercase.
C7_TitleCasing ==
    (handler = "generate" /\ pc = "done" /\ fieldId = F_title
       /\ response.status = 200) =>
        LET words == SplitOnSpace(CleanContent(reply, keyword), 1, <<>>)
            cased == SplitOnSpace(response.output, 1, <<>>)
        IN  /\ Len(cased) = Len(words)
            /\ \A i \in DOMAIN words :
                  cased[i] = IF i > 1 /\ toLowerCase(words[i]) \in smallWords
                             THEN toLowerCase(words[i])
                             ELSE Capitalize(words[i])
            /\ response.output # <<>> =>
                  UpperChar(response.output[1]) = response.output[1]

\* C8: keyword substitution is idempotent: substituting again in the
\* substituted prompt changes nothing, whatever the template and keyword.
C8_SubstitutionIdempotent ==
    (handler = "generate" /\ pc = "calling") =>
        SubstituteKeyword(prompt, keyword) = prompt

\* The request names a keyword, a flow and a field the endpoint knows.
WellFormedRequest ==
    /\ env.typeofKeyword = "string"
    /\ ~InvalidKeyword(keyword)
    /\ flow \in {"with subtopics", "no subtopics"}
    /\ fieldId \in validFields

\* C12 as stated: a request with a valid keyword, a valid flow and a known
\* fieldId but no access token is answered 401, whatever the rest of the
\* configuration, and no prompt is fetched and the model is not called.
C12_NoTokenIs401 ==
    (handler = "generate" /\ WellFormedRequest /\ ~env.accessToken) =>
        /\ promptFetches = 0
        /\ modelCalls = 0
        /\ pc = "done" => response.status = 401

\* C12 amended: a request with a valid keyword, a valid flow and a known
\* fieldId that the flow offers (subtopics only with "with subtopics"), on
\* a server whose model API key is configured, but with no access token, is
\* answered 401, whatever the sheet credentials, the sheet id and the state
\* of the remote services, and no prompt is fetched and the model is not
\* called.
C12_NoTokenIs401Amended ==
    (handler = "generate" /\ WellFormedRequest /\ ~env.accessToken
       /\ ~(fieldId = F_subtopics /\ flow # "with subtopics")
       /\ env.openaiApiKey) =>
        /\ promptFetches = 0
        /\ modelCalls = 0
        /\ pc # "calling"
        /\ pc = "done" => response.status = 401

\* A request without a token has been answered on a server that lacks the
\* sheet credentials and whose remote services fail.
C12_Witness ==
    /\ handler = "generate" /\ pc = "done" /\ WellFormedRequest
    /\ ~env.accessToken /\ env.openaiApiKey
    /\ ~env.credentials /\ ~env.sheetId
    /\ env.fetch = "throws" /\ env.openai = "throws"
    /\ fieldId = F_subtopics
    /\ response.status = 401

\* C14: a request whose keyword is missing, not a string or blank after
\* trimming, whose flow is not one of the two flows, or whose fieldId is not
\* one of the ten field ids, is answered 400 whatever the token and the
\* server configuration, with no call of the resolver or of the model.
C14_BadRequestIs400 ==
    (handler = "generate"
       /\ \/ env.typeofKeyword # "string"
          \/ keyword = <<>>
          \/ trim(keyword) = <<>>
          \/ flow \notin {"with subtopics", "no subtopics"}
          \/ fieldId \notin { F_title, F_intro, F_pic1, F_pic2, F_pic3, F_pic4,
                              F_subtopics, F_cost, F_why, F_faq }) =>
        /\ promptFetches = 0
        /\ modelCalls = 0
        /\ pc \in {"start", "done"}
        /\ pc = "done" => (response.status = 400 /\ ~response.ok)

\* An unknown field was refused on a server with no API key, for a request
\* with no token.
C14_Witness ==
    /\ handler = "generate" /\ pc = "done"
    /\ env.typeofKeyword = "string" /\ ~InvalidKeyword(keyword)
    /\ flow = "no subtopics"
    /\ fieldId \notin validFields
    /\ ~env.openaiApiKey /\ ~env.accessToken /\ ~env.credentials
    /\ response.status = 400
    /\ response.error = "invalid field"

\* C15: for every field other than faq the prompt does not depend on
\* competitorUrls: the user prompt built for the request equals the one
\* built for the same request with any other list of competitor URLs, and
\* so does the system instruction; for faq the URLs do change the prompt.
C15_CompetitorsOnlyForFaq ==
    (handler = "generate" /\ pc = "calling") =>
        LET promptData == getPromptFromSheets(rows, fieldId, env)
            promptWith(urls) ==
                BuildPrompt(promptData, keyword, fieldId,
                            [request EXCEPT !.competitorUrls = urls])
        IN  /\ fieldId # F_faq =>
                  \A urls \in CompetitorUrlLists :
                      /\ promptWith(urls) = prompt
                      /\ SystemInstruction(keyword, fieldId) = system
            /\ fieldId = F_faq =>
                  \A urls \in CompetitorUrlLists :
                      (promptWith(urls) = prompt) <=>
                          (urls = request.competitorUrls)

\* A prompt was built for a field other than faq from a request that
\* carries two competitor URLs.
C15_Witness ==
    /\ handler = "generate" /\ pc = "calling"
    /\ fieldId = F_subtopics
    /\ Len(request.competitorUrls) = 2
    /\ Len(request.subtopics) = 2

\* The text of s after the first occurrence of marker, and before it.
TextAfter(s, marker) ==
    LET i == indexOf(s, marker)
    IN  IF i < 0 THEN <<>> ELSE SubSeq(s, i + 1 + Len(marker), Len(s))

TextBefore(s, marker) ==
    LET i == indexOf(s, marker)
    IN  IF i < 0 THEN s ELSE SubSeq(s, 1, i)

\* The themes the prompt lists to avoid, as they stand in its text.
ListedThemes ==
    IF includes(prompt, ThemesHeading)
    THEN LET line == TextBefore(TextAfter(prompt, ThemesHeading), <<"\n">>)
             items == SplitOn(",", line, 1, <<>>)
         IN  [i \in DOMAIN items |-> trim(items[i])]
    ELSE <<>>

\* The used phrases the prompt lists, as they stand in its text.
ListedPhrases ==
    IF includes(prompt, PhrasesHeading)
    THEN SplitOn("\n",
             TextBefore(TextAfter(prompt, PhrasesHeading), <<"\n", "\n">>),
             1, <<>>)
    ELSE <<>>

\* The entries of previousPictures of other fields with a non-empty output.
Siblings ==
    {i \in DOMAIN request.previousPictures :
        /\ request.previousPictures[i].key # fieldId
        /\ request.previousPictures[i].value # <<>>}

\* The whitespace-separated words of a text.
WordsOf(text) ==
    {SubSeq(text, a, b) : <<a, b>> \in
        {ab \in (1..Len(text)) \X (1..Len(text)) :
            /\ ab[1] <= ab[2]
            /\ \A k \in ab[1]..ab[2] : ~IsSpace(text[k])
            /\ ab[1] = 1 \/ IsSpace(text[ab[1] - 1])
            /\ ab[2] = Len(text) \/ IsSpace(text[ab[2] + 1])}}

\* The vocabulary themes found inside a word of a sibling output.
ExpectedThemes ==
    {keyThemes[t] : t \in
        {t \in DOMAIN keyThemes :
            \E i \in Siblings :
               \E w \in WordsOf(toLowerCase(request.previousPictures[i].value)) :
                  includes(w, keyThemes[t])}}

\* The lower-cased first lines of the sibling outputs (an empty first line
\* is no phrase).
ExpectedPhrases ==
    {toLowerCase(TextBefore(request.previousPictures[i].value, <<"\n">>)) :
        i \in Siblings} \ {<<>>}

\* C16: in the prompt built for a picture field the themes to avoid are
\* exactly the vocabulary themes that occur inside a whitespace-separated
\* lower-cased word of a non-empty output of another field, each listed
\* once, and the used phrases are the lower-cased first lines of those
\* outputs; the field's own previous output contributes nothing.
C16_ThemesFromSiblings ==
    (handler = "generate" /\ pc = "calling"
       /\ fieldId \in {F_pic1, F_pic2, F_pic3, F_pic4}) =>
        /\ {ListedThemes[k] : k \in DOMAIN ListedThemes} = ExpectedThemes
        /\ \A j, k \in DOMAIN ListedThemes :
              j # k => ListedThemes[j] # ListedThemes[k]
        /\ {ListedPhrases[k] : k \in DOMAIN ListedPhrases} = ExpectedPhrases
        /\ Siblings = {} => ~includes(prompt, UniquenessHeading)

\* pic2 is generated with its own earlier output, which holds the theme
\* "eco", and the output of pic1 from the specification's scenario; the
\* prompt lists stress, free and easy.
C16_Witness ==
    /\ handler = "generate" /\ pc = "calling"
    /\ fieldId = F_pic2
    /\ Len(request.previousPictures) = 2
    /\ request.previousPictures[1].key = F_pic2
    /\ includes(toLowerCase(request.previousPictures[1].value), <<"e","c","o">>)
    /\ request.previousPictures[2].key = F_pic1
    /\ ListedThemes = << <<"s","t","r","e","s","s">>, <<"f","r","e","e">>,
                         <<"e","a","s","y">> >>
    /\ ListedPhrases = << <<"s","t","r","e","s","s","-","f","r","e","e"," ","h","a","u","l","i","n","g">> >>

\* ------------------------------------------------------------------
\* POST /generate/pictures: one answer of the model is parsed into
\* (title, summary) pairs and four of them are drawn at random.
\* ------------------------------------------------------------------

\* The least number of parsed pairs the endpoint accepts, and the number of
\* pairs it hands out.
PicturesNeeded == 4

\* The cap on the range the random index is drawn from.
MaxSelectable == 13

Min(a, b) == IF a < b THEN a ELSE b

\* Math.min(combinations.length, 13), drawn from without the cap.
SelectableCountUncapped(n) == n

\* Math.min(combinations.length, 13): the random index lies in
\* 0 .. SelectableCount(n) - 1.
SelectableCount(n) == Min(n, MaxSelectable)

\* selectedIndices.size < 4 && selectedIndices.size < combinations.length
StillSelecting(selected, combos) ==
    Len(selected) < PicturesNeeded /\ Len(selected) < Len(combos)

\* Set.prototype.add on a set kept in insertion order.
SetAdd(selected, r) ==
    IF \E k \in DOMAIN selected : selected[k] = r
    THEN selected
    ELSE Append(selected, r)

\* The callback of lines[0].split(' ').map((word, index) => ...).
BatchTitleCaseWord(word, index) ==
    IF toLowerCase(word) \in smallWords /\ index > 0
    THEN toLowerCase(word)
    ELSE Capitalize(word)

\* The casing of the first line of one picture output.
BatchTitleCase(line) ==
    LET words == SplitOnSpace(line, 1, <<>>)
        cased == [i \in DOMAIN words |-> BatchTitleCaseWord(words[i], i - 1)]
    IN  UpperFirst(JoinWithSpace(cased))

\* One picture output: `${title}\n${summary}` with its first line cased.
PictureOutput(combination) ==
    LET text == combination.title \o <<"\n">> \o combination.summary
        lines == SplitOn("\n", text, 1, <<>>)
    IN  JoinWith("\n", [i \in DOMAIN lines |->
                           IF i = 1 THEN BatchTitleCase(lines[i]) ELSE lines[i]])

\* selectedCombinations = Array.from(selectedIndices).map(i => combinations[i])
\* and the four outputs pic1 .. pic4 built from them.
PictureOutputs(selected, combos) ==
    [k \in 1..PicturesNeeded |-> PictureOutput(combos[selected[k] + 1])]

PicturesError(code, why) ==
    [status |-> code, ok |-> FALSE, outputs |-> <<>>, error |-> why]

\* The checks POST /generate/pictures makes before it fetches the prompt;
\* status 0 when the request passes them all.
ValidatePictures(kw, e) ==
    IF e.typeofKeyword # "string" \/ InvalidKeyword(kw)
    THEN PicturesError(400, "keyword required")
    ELSE IF ~e.openaiApiKey THEN PicturesError(500, "api key not configured")
    ELSE IF ~e.accessToken THEN PicturesError(401, "authentication required")
    ELSE [status |-> 0]

\* The user prompt of the batch: the substituted template and, when the
\* sheet has one, the substituted example under its heading.
PicturesPrompt(promptResult, kw) ==
    LET body == SubstituteKeyword(promptResult.prompt, kw)
    IN  IF promptResult.example # <<>>
        THEN body \o ExampleHeading \o SubstituteKeyword(promptResult.example, kw)
        ELSE body

PicturesSystemMiddle ==
    <<"\"","."," ","G","e","n","e","r","a","t","e"," ","e","x","a","c","t",
      "l","y"," ","1","3"," ","u","n","i","q","u","e"," ","t","i","t","l",
      "e"," ","a","n","d"," ","s","u","m","m","a","r","y"," ","c","o","m",
      "b","i","n","a","t","i","o","n","s"," ","f","o","r"," ">>

PicturesSystemTail ==
    <<" ","s","e","r","v","i","c","e","s","."," ","E","a","c","h"," ","c",
      "o","m","b","i","n","a","t","i","o","n"," ","s","h","o","u","l","d",
      " ","f","o","c","u","s"," ","o","n"," ","a"," ","d","i","f","f","e",
      "r","e","n","t"," ","a","s","p","e","c","t"," ","o","r"," ","b","e",
      "n","e","f","i","t","."," ","N","e","v","e","r"," ","r","e","p","e",
      "a","t"," ","t","h","e","m","e","s"," ","o","r"," ","k","e","y"," ",
      "p","h","r","a","s","e","s"," ","b","e","t","w","e","e","n"," ","c",
      "o","m","b","i","n","a","t","i","o","n","s",".">>

\* The system message of the batch call (line 69).
PicturesSystemInstruction(kw) ==
    SystemHead \o kw \o PicturesSystemMiddle \o kw \o PicturesSystemTail

\* The largest number of pairs parsed from one answer.
MaxCombinations == 14

DigitChar(d) == <<"0","1","2","3","4","5","6","7","8","9">>[d + 1]

\* Titles of parsed pairs: small words first, in the middle and last, mixed
\* letter case, a leading space is trimmed by the parser and so never occurs.
PoolTitles ==
    << <<"a"," ","c","a","t">>, <<"T","H","E"," ","e","n","d"," ","O","F">>,
       <<"x">>, <<"b","y"," ","a","n","d"," ","B","Y">> >>

\* The i-th parsed pair (from 0); summaries differ pairwise, and the
\* fallback pattern of the parser lets a summary run over several lines.
Combination(i) ==
    [title |-> PoolTitles[(i % 4) + 1],
     summary |-> IF i % 5 = 2
                 THEN <<"s", DigitChar(i \div 10), "\n", DigitChar(i % 10), " ", "a">>
                 ELSE <<"s", DigitChar(i \div 10), DigitChar(i % 10), " ", "a">>]

\* What the parser recovers from an answer that holds n pairs.
ParsedCombinations(n) == [i \in 1..n |-> Combination(i - 1)]

PicturesSheet ==
    << PromptHeader,
       << <<"P","i","c","t","u","r","e","s">>, BareKeyword, <<"x">> >> >>

InitPictures ==
    /\ handler = "pictures"
    /\ pc = "start"
    /\ ClassifyIdle
    /\ PictureIdle
    /\ BatchIdle
    /\ TokenIdle
    /\ UiIdle
    /\ response = NoResponse
    /\ prompt = <<>>
    /\ modelCalls = 0
    /\ promptFetches = 0
    /\ fieldId = F_pictures
    /\ flow = "no subtopics"
    /\ request = NoRequestContext
    /\ system = <<>>
    /\ reply = <<>>
    /\ keyword \in { <<>>, <<" ">>, <<"a","b">> }
    /\ env \in GenerateEnvs
    /\ rows \in { PicturesSheet, <<PromptHeader>>,
                  << PromptHeader, << <<"P","i","c","t","u","r","e","s">>, <<>> >> >> }

\* POST /generate/pictures up to the call of the model (lines 7-61).
PicturesRequest ==
    /\ handler = "pictures"
    /\ pc = "start"
    /\ LET invalid == ValidatePictures(keyword, env)
           promptResult == getPromptFromSheets(rows, F_pictures, env)
       IN  IF invalid.status # 0
           THEN /\ response' = invalid
                /\ pc' = "done"
                /\ UNCHANGED <<prompt, system, modelCalls, promptFetches>>
           ELSE IF ~PromptUsable(promptResult)
           THEN /\ response' = PicturesError(404, promptResult.error.kind)
                /\ pc' = "done"
                /\ promptFetches' = promptFetches + 1
                /\ UNCHANGED <<prompt, system, modelCalls>>
           ELSE /\ prompt' = PicturesPrompt(promptResult, keyword)
                /\ system' = PicturesSystemInstruction(keyword)
                /\ modelCalls' = modelCalls + 1
                /\ promptFetches' = promptFetches + 1
                /\ pc' = "calling"
                /\ UNCHANGED response
    /\ UNCHANGED <<handler, keyword, env, rows, fieldId, flow, request, reply,
                   classifyVars, batchVars, tokenVars, pictureVars,
                   uiVars>>

\* The call of the model throws: the catch block answers (lines 182-188).
PicturesCallThrows ==
    /\ handler = "pictures"
    /\ pc = "calling"
    /\ env.openai = "throws"
    /\ response' = PicturesError(500, "internal server error")
    /\ pc' = "done"
    /\ UNCHANGED <<handler, keyword, env, rows, fieldId, flow, reply, prompt,
                   request, system, modelCalls, promptFetches,
                   classifyVars, batchVars, tokenVars, pictureVars,
                   uiVars>>

\* The model answers and the answer is parsed (lines 80-134): with fewer
\* than four pairs the endpoint answers 500, otherwise the draw starts on
\* an empty set.
PicturesParse ==
    /\ handler = "pictures"
    /\ pc = "calling"
    /\ env.openai = "ok"
    /\ \E n \in 0..MaxCombinations :
          /\ combinations' = ParsedCombinations(n)
          /\ IF n < PicturesNeeded
             THEN /\ response' = PicturesError(500, "too few combinations")
                  /\ pc' = "done"
             ELSE /\ pc' = "selecting"
                  /\ UNCHANGED response
    /\ selectedIndices' = <<>>
    /\ UNCHANGED <<handler, keyword, env, rows, fieldId, flow, reply, prompt,
                   request, system, modelCalls, promptFetches,
                   classifyVars, batchVars, tokenVars, uiVars>>

\* One turn of the while loop (lines 138-141).
PicturesSelect ==
    /\ handler = "pictures"
    /\ pc = "selecting"
    /\ StillSelecting(selectedIndices, combinations)
    /\ \E randomIndex \in 0..(SelectableCount(Len(combinations)) - 1) :
          selectedIndices' = SetAdd(selectedIndices, randomIndex)
    /\ UNCHANGED <<handler, pc, keyword, env, rows, fieldId, response, flow,
                   reply, prompt, request, system, modelCalls,
                   promptFetches, classifyVars, batchVars, tokenVars,
                   combinations, uiVars>>

\* The loop has ended: the four outputs are built and returned
\* (lines 143-180).
PicturesRespond ==
    /\ handler = "pictures"
    /\ pc = "selecting"
    /\ ~StillSelecting(selectedIndices, combinations)
    /\ response' =
          [status |-> 200, ok |-> TRUE,
           outputs |-> PictureOutputs(selectedIndices, combinations),
           error |-> "none",
           totalCombinations |-> Len(combinations),
           selectedIndices |-> selectedIndices]
    /\ pc' = "done"
    /\ UNCHANGED <<handler, keyword, env, rows, fieldId, flow, reply, prompt,
                   request, system, modelCalls, promptFetches,
                   classifyVars, batchVars, tokenVars, pictureVars,
                   uiVars>>

NextPictures ==
    \/ PicturesRequest
    \/ PicturesCallThrows
    \/ PicturesParse
    \/ PicturesSelect
    \/ PicturesRespond

SpecPictures == InitPictures /\ [][NextPictures]_vars

\* The answer of the model has been parsed and the request has ended.
PicturesParsed ==
    handler = "pictures" /\ pc = "done" /\ modelCalls = 1 /\ env.openai = "ok"

\* The title of a pair as the batch cases it: small words lowercase except
\* the first word, other words capitalised.
ExpectedPictureTitle(title) ==
    LET words == SplitOnSpace(title, 1, <<>>)
    IN  UpperFirst(JoinWithSpace(
          [i \in DOMAIN words |->
              IF i > 1 /\ toLowerCase(words[i]) \in smallWords
              THEN toLowerCase(words[i])
              ELSE Capitalize(words[i])]))

\* C9: when at least 4 pairs were parsed, the picture batch answers with
\* exactly 4 pairwise distinct indices, each below min(n, 13) for n parsed
\* pairs, and pic1 .. pic4 are the pairs at those indices in the order the
\* indices were drawn (title cased, then a line break, then the summary);
\* when fewer than 4 pairs were parsed it answers with an error and no
\* outputs.
C9_PictureSelection ==
    PicturesParsed =>
        LET n == Len(combinations)
        IN  IF n >= 4
            THEN /\ response.status = 200
                 /\ response.ok
                 /\ response.totalCombinations = n
                 /\ response.selectedIndices = selectedIndices
                 /\ Len(selectedIndices) = 4
                 /\ \A j, k \in 1..4 :
                       j # k => selectedIndices[j] # selectedIndices[k]
                 /\ \A k \in 1..4 :
                       /\ selectedIndices[k] \in 0..(n - 1)
                       /\ selectedIndices[k] < 13
                 /\ Len(response.outputs) = 4
                 /\ \A k \in 1..4 :
                       response.outputs[k] =
                          ExpectedPictureTitle(
                              combinations[selectedIndices[k] + 1].title)
                          \o <<"\n">>
                          \o combinations[selectedIndices[k] + 1].summary
            ELSE /\ response.status = 500
                 /\ ~response.ok
                 /\ response.outputs = <<>>

\* More than 13 pairs were parsed and the four indices, drawn out of
\* ascending order, include the largest one that can be drawn.
C9_Witness ==
    /\ PicturesParsed
    /\ response.status = 200
    /\ Len(combinations) > 13
    /\ selectedIndices[1] = 12
    /\ selectedIndices[2] = 0
    /\ selectedIndices[4] < selectedIndices[3]

\* ------------------------------------------------------------------
\* The two generation endpoints side by side.
\* ------------------------------------------------------------------

InitGeneration == InitGenerate \/ InitPictures

NextGeneration == NextGenerate \/ NextPictures

SpecGeneration == InitGeneration /\ [][NextGeneration]_vars

\* C13: in POST /generate/{fieldId} and POST /generate/pictures the model is
\* called only after the prompt resolver was called and returned found =
\* true with a non-empty prompt; when the resolver returns found = false or
\* an empty prompt the request ends with 404, no prompt is built and the
\* model is never called.
C13_ModelOnlyAfterPrompt ==
    LET result == getPromptFromSheets(rows, fieldId, env)
        resolved == result.found /\ result.prompt # <<>>
    IN  /\ modelCalls > 0 =>
              /\ promptFetches > 0
              /\ resolved
              /\ prompt # <<>>
        /\ (promptFetches > 0 /\ ~resolved) =>
              /\ modelCalls = 0
              /\ prompt = <<>>
              /\ pc = "done"
              /\ response.status = 404
              /\ ~response.ok

\* The picture batch found its row with an empty prompt cell and answered
\* 404 without a call of the model.
C13_Witness ==
    /\ handler = "pictures" /\ pc = "done"
    /\ promptFetches = 1
    /\ response.status = 404
    /\ response.error = "found but prompt is empty"
    /\ modelCalls = 0

\* ------------------------------------------------------------------
\* POST /generate/all: one call of /generate/{fieldId} per field of the
\* flow's list.
\* ------------------------------------------------------------------

\* The field list of flow "with subtopics" (line 23).
WithSubtopicsFields ==
    << <<"w","t","i","t","l","e">>,
       <<"w","e","n","t","r","o">>,
       <<"w","p","i","c","1">>,
       <<"w","p","i","c","2">>,
       <<"w","p","i","c","3">>,
       <<"w","p","i","c","4">>,
       <<"s","u","b">>,
       <<"w","c","o","s","t">>,
       <<"w","w","h","y">>,
       <<"w","f","a","q">> >>

\* The field list of flow "no subtopics" (line 24).
NoSubtopicsFields ==
    << <<"t","i","t","l","e">>,
       <<"e","n","t","r","o">>,
       <<"p","i","c","1">>,
       <<"p","i","c","2">>,
       <<"p","i","c","3">>,
       <<"p","i","c","4">>,
       <<"c","o","s","t">>,
       <<"w","h","y">>,
       <<"f","a","q">> >>

fieldIds(fl) ==
    IF fl = "with subtopics" THEN WithSubtopicsFields ELSE NoSubtopicsFields

\* The checks of POST /generate/all; status 0 when the request passes.
ValidateAll(kw, fl, e) ==
    IF e.typeofKeyword # "string" \/ InvalidKeyword(kw)
    THEN [status |-> 400, ok |-> FALSE, error |-> "keyword required"]
    ELSE IF fl \notin {"with subtopics", "no subtopics"}
    THEN [status |-> 400, ok |-> FALSE, error |-> "invalid flow"]
    ELSE [status |-> 0]

\* obj[key] = value on an object kept as its entries in insertion order.
ObjectSet(obj, key, value) ==
    IF \E k \in DOMAIN obj : obj[k].key = key
    THEN [k \in DOMAIN obj |->
            IF obj[k].key = key THEN [key |-> key, value |-> value] ELSE obj[k]]
    ELSE Append(obj, [key |-> key, value |-> value])

\* What one call of /generate/{fieldId} comes back with: an answer with
\* response.ok, an answer without it, with or without an error text, or a
\* fetch that throws.
SubReplies ==
    { [kind |-> "ok", output |-> <<"o">>, error |-> <<>>],
      [kind |-> "failed", output |-> <<>>, error |-> <<"e">>],
      [kind |-> "failed", output |-> <<>>, error |-> <<>>],
      [kind |-> "throws", output |-> <<>>, error |-> <<"m">>] }

\* The answers drawn for the i-th field: all of them for the first field,
\* and for the later ones all but the answer without an error text.
SubRepliesAt(i) ==
    IF i = 1 THEN SubReplies
    ELSE {r \in SubReplies : r.kind # "failed" \/ r.error # <<>>}

GenerationFailedText ==
    <<"G","e","n","e","r","a","t","i","o","n"," ","f","a","i","l","e","d">>

\* result.error || 'Generation failed'
ErrorOf(result) ==
    IF result.error # <<>> THEN result.error ELSE GenerationFailedText

\* A loop that starts a call while others are still running.
CanStartCallAnytime(b) == TRUE

\* The await in the loop body: the next call starts when none is running.
CanStartCall(b) == b.inFlight = {}

InitAll ==
    /\ handler = "all"
    /\ pc = "start"
    /\ ClassifyIdle
    /\ PictureIdle
    /\ BatchIdle
    /\ TokenIdle
    /\ UiIdle
    /\ rows = <<>>
    /\ fieldId = <<>>
    /\ response = NoResponse
    /\ request = NoRequestContext
    /\ system = <<>>
    /\ reply = <<>>
    /\ prompt = <<>>
    /\ modelCalls = 0
    /\ promptFetches = 0
    /\ keyword \in { <<>>, <<" ">>, <<"a","b">> }
    /\ flow \in { "with subtopics", "no subtopics", "", "other" }
    /\ env \in { GenerateEnvOk,
                  [GenerateEnvOk EXCEPT !.typeofKeyword = "number"],
                  [GenerateEnvOk EXCEPT !.accessToken = FALSE] }

\* Validation and the choice of the field list (lines 5-27).
AllStart ==
    /\ handler = "all"
    /\ pc = "start"
    /\ LET invalid == ValidateAll(keyword, flow, env)
       IN  IF invalid.status # 0
           THEN /\ response' = invalid
                /\ pc' = "done"
                /\ UNCHANGED batch
           ELSE /\ batch' = [started |-> TRUE, fieldIds |-> fieldIds(flow),
                             next |-> 1, inFlight |-> {}, calls |-> <<>>,
                             results |-> <<>>, errors |-> <<>>]
                /\ pc' = "loop"
                /\ UNCHANGED response
    /\ UNCHANGED <<handler, keyword, env, rows, fieldId, classifyVars,
                   generateVars, pictureVars, tokenVars, uiVars>>

\* The loop body sends the request for the next field (line 32).
AllCall ==
    /\ handler = "all"
    /\ pc = "loop"
    /\ batch.next <= Len(batch.fieldIds)
    /\ CanStartCall(batch)
    /\ batch' = [batch EXCEPT !.calls = Append(@, batch.fieldIds[batch.next]),
                              !.inFlight = @ \cup {batch.next},
                              !.next = @ + 1]
    /\ UNCHANGED <<handler, pc, keyword, env, rows, fieldId, response,
                   classifyVars, generateVars, pictureVars, tokenVars,
                   uiVars>>

\* A call comes back and its result is filed (lines 38-47).
AllReturn ==
    /\ handler = "all"
    /\ pc = "loop"
    /\ \E i \in batch.inFlight : \E r \in SubRepliesAt(i) :
          LET f == batch.fieldIds[i]
          IN  batch' =
                IF r.kind = "ok"
                THEN [batch EXCEPT !.inFlight = @ \ {i},
                                   !.results = ObjectSet(@, f, r.output)]
                ELSE IF r.kind = "failed"
                THEN [batch EXCEPT !.inFlight = @ \ {i},
                                   !.errors = ObjectSet(@, f, ErrorOf(r))]
                ELSE [batch EXCEPT !.inFlight = @ \ {i},
                                   !.errors = ObjectSet(@, f, r.error)]
    /\ UNCHANGED <<handler, pc, keyword, env, rows, fieldId, response,
                   classifyVars, generateVars, pictureVars, tokenVars,
                   uiVars>>

\* The loop has ended and the aggregate is returned (lines 50-57).
AllRespond ==
    /\ handler = "all"
    /\ pc = "loop"
    /\ batch.next > Len(batch.fieldIds)
    /\ batch.inFlight = {}
    /\ response' = [status |-> 200, ok |-> TRUE,
                    results |-> batch.results,
                    hasErrors |-> Len(batch.errors) > 0,
                    errors |-> batch.errors,
                    flow |-> flow,
                    fieldCount |-> Len(batch.fieldIds),
                    successCount |-> Len(batch.results)]
    /\ pc' = "done"
    /\ UNCHANGED <<handler, keyword, env, rows, fieldId, batch, classifyVars,
                   generateVars, pictureVars, tokenVars, uiVars>>

NextAll == AllStart \/ AllCall \/ AllReturn \/ AllRespond

SpecAll == InitAll /\ [][NextAll]_vars

\* The keys of an object kept as its entries.
Keys(obj) == {obj[k].key : k \in DOMAIN obj}

\* C17: POST /generate/all calls /generate/{fieldId} once per field of the
\* flow's list, one after another in list order, a call starting only
\* after the one before it has come back; in the response every listed
\* field is in exactly one of results and errors, fieldCount is the length
\* of the list and successCount the number of entries of results; a field
\* that fails does not keep the later fields from being called.
C17_SequentialFanOut ==
    (handler = "all" /\ batch.started) =>
        LET list == IF flow = "with subtopics"
                    THEN WithSubtopicsFields ELSE NoSubtopicsFields
        IN  /\ Len(batch.calls) <= Len(list)
            /\ batch.calls = SubSeq(list, 1, Len(batch.calls))
            /\ Cardinality(batch.inFlight) <= 1
            /\ Cardinality(Keys(batch.results)) + Cardinality(Keys(batch.errors))
                  + Cardinality(batch.inFlight) = Len(batch.calls)
            /\ pc = "done" =>
                  /\ batch.calls = list
                  /\ response.status = 200
                  /\ \A k \in DOMAIN list :
                        (list[k] \in Keys(response.results))
                           # (list[k] \in Keys(response.errors))
                  /\ Keys(response.results) \cup Keys(response.errors)
                        = {list[k] : k \in DOMAIN list}
                  /\ response.fieldCount = Len(list)
                  /\ response.successCount = Cardinality(Keys(response.results))
                  /\ Len(response.results) = Cardinality(Keys(response.results))

\* The first field failed, a later field threw, and the last field was
\* still called and succeeded.
C17_Witness ==
    /\ handler = "all" /\ pc = "done" /\ batch.started
    /\ flow = "with subtopics"
    /\ response.fieldCount = 10
    /\ response.successCount = 7
    /\ response.errors[1].key = WithSubtopicsFields[1]
    /\ response.errors[1].value = GenerationFailedText
    /\ Len(response.errors) = 3
    /\ WithSubtopicsFields[10] \in Keys(response.results)

\* ------------------------------------------------------------------
\* Token manager: lib/tokenManager.ts
\* ------------------------------------------------------------------

\* 60 * 60 * 1000 and 5 * 60 * 1000 milliseconds.
OneHourMs == 60 * 60 * 1000

FiveMinutesMs == 5 * 60 * 1000

\* Date.now() at the call, in milliseconds.
Now == 10 * OneHourMs

\* An optional field of the parsed token data: <<>> when the field is
\* missing, <<v>> when it holds v.
NumberFalsy(field) == field = <<>> \/ field[1] = 0

StringFalsy(field) == field = <<>> \/ field[1] = ""

\* isTokenExpired(tokenData)
isTokenExpired(tokenData, now) ==
    IF NumberFalsy(tokenData.expiryDate)
    THEN LET oneHourAgo == now - OneHourMs
         IN  (IF NumberFalsy(tokenData.timestamp)
              THEN 0 ELSE tokenData.timestamp[1]) < oneHourAgo
    ELSE LET fiveMinutesFromNow == now + FiveMinutesMs
         IN  tokenData.expiryDate[1] < fiveMinutesFromNow

\* refreshAccessToken after the exchange has come back (lines 58-85):
\* the exchange gives a token, gives none, or throws.
RefreshResult(exchange) ==
    IF exchange.kind = "token" /\ exchange.accessToken # ""
    THEN [success |-> TRUE, accessToken |-> exchange.accessToken]
    ELSE [success |-> FALSE, accessToken |-> ""]

\* getValidAccessToken up to the exchange, without its catch block: what
\* JSON.parse or the expiry check throws leaves the function.
BeforeExchangeNoCatch(accessToken, json, e, now) ==
    IF json.kind = "absent" THEN [kind |-> "return", value |-> accessToken]
    ELSE IF json.kind \in {"malformed", "null"}
    THEN [kind |-> "raise", value |-> ""]
    ELSE IF ~isTokenExpired(json, now)
    THEN [kind |-> "return", value |-> accessToken]
    ELSE IF StringFalsy(json.refreshToken)
    THEN [kind |-> "return", value |-> accessToken]
    ELSE IF ~e.credentials THEN [kind |-> "return", value |-> accessToken]
    ELSE [kind |-> "exchange", value |-> ""]

\* getValidAccessToken up to the exchange (lines 92-116 and 39-58):
\* missing token data returns the token at once; JSON.parse throws on
\* malformed text and isTokenExpired throws on null, and the catch block
\* returns the token; so do a token that is not expired, a missing refresh
\* token and missing OAuth credentials.
BeforeExchange(accessToken, json, e, now) ==
    IF json.kind = "absent" THEN [kind |-> "return", value |-> accessToken]
    ELSE IF json.kind \in {"malformed", "null"}
    THEN [kind |-> "return", value |-> accessToken]
    ELSE IF ~isTokenExpired(json, now)
    THEN [kind |-> "return", value |-> accessToken]
    ELSE IF StringFalsy(json.refreshToken)
    THEN [kind |-> "return", value |-> accessToken]
    ELSE IF ~e.credentials THEN [kind |-> "return", value |-> accessToken]
    ELSE [kind |-> "exchange", value |-> ""]

\* Token data that is no object: missing or empty text, malformed JSON,
\* the JSON texts null and 5.
PlainJsons ==
    [kind : {"absent", "malformed", "null", "number"},
     expiryDate : {<<>>}, timestamp : {<<>>}, refreshToken : {<<>>}]

\* Token data objects: each field missing or present, fresh or stale.
ObjectJsons ==
    [kind : {"object"},
     expiryDate : { <<>>, <<0>>, <<Now + FiveMinutesMs - 1>>,
                    <<Now + FiveMinutesMs>> },
     timestamp : { <<>>, <<0>>, <<Now - OneHourMs - 1>>, <<Now - OneHourMs>> },
     refreshToken : { <<>>, <<"">>, <<"r">> }]

TokenDataJsons == PlainJsons \cup ObjectJsons

\* The OAuth configuration and what the exchange will come back with.
TokenEnvs ==
    [credentials : BOOLEAN,
     exchange : { [kind |-> "token", accessToken |-> "new"],
                  [kind |-> "token", accessToken |-> ""],
                  [kind |-> "throws", accessToken |-> ""] }]

InitToken ==
    /\ handler = "token"
    /\ pc = "start"
    /\ ClassifyIdle
    /\ GenerateIdle
    /\ PictureIdle
    /\ BatchIdle
    /\ UiIdle
    /\ SheetIdle
    /\ keyword = <<>>
    /\ env \in TokenEnvs
    /\ \E a \in {"old", ""}, j \in TokenDataJsons :
          token = [started |-> FALSE, accessToken |-> a, tokenDataJson |-> j,
                   exchanges |-> 0, raised |-> FALSE, returned |-> <<>>]

\* getValidAccessToken is called and runs up to the exchange or its end.
TokenCall ==
    /\ handler = "token"
    /\ pc = "start"
    /\ LET step == BeforeExchange(token.accessToken, token.tokenDataJson,
                                  env, Now)
       IN  IF step.kind = "exchange"
           THEN /\ token' = [token EXCEPT !.started = TRUE, !.exchanges = @ + 1]
                /\ pc' = "exchanging"
           ELSE IF step.kind = "raise"
           THEN /\ token' = [token EXCEPT !.started = TRUE, !.raised = TRUE]
                /\ pc' = "done"
           ELSE /\ token' = [token EXCEPT !.started = TRUE,
                                          !.returned = <<step.value>>]
                /\ pc' = "done"
    /\ UNCHANGED <<handler, keyword, env, sheetVars, classifyVars,
                   generateVars, pictureVars, batchVars, uiVars>>

\* The exchange comes back (lines 58-85 and 118-124).
TokenExchanged ==
    /\ handler = "token"
    /\ pc = "exchanging"
    /\ LET refreshResult == RefreshResult(env.exchange)
       IN  token' = [token EXCEPT !.returned =
                        IF refreshResult.success
                        THEN <<refreshResult.accessToken>>
                        ELSE <<token.accessToken>>]
    /\ pc' = "done"
    /\ UNCHANGED <<handler, keyword, env, sheetVars, classifyVars,
                   generateVars, pictureVars, batchVars, uiVars>>

NextToken == TokenCall \/ TokenExchanged

SpecToken == InitToken /\ [][NextToken]_vars

\* C18: getValidAccessToken never raises; for every accessToken and every
\* tokenDataJson it returns a token, and the token is the one passed in
\* except after an exchange that succeeded, when it is the refreshed one.
C18_NeverRaises ==
    (handler = "token") =>
        /\ ~token.raised
        /\ pc = "done" =>
              /\ Len(token.returned) = 1
              /\ token.returned[1] =
                    IF /\ token.exchanges > 0
                       /\ env.exchange.kind = "token"
                       /\ env.exchange.accessToken # ""
                    THEN env.exchange.accessToken
                    ELSE token.accessToken

\* A refresh that threw gave back the token passed in.
C18_Witness ==
    /\ handler = "token" /\ pc = "done"
    /\ token.exchanges = 1
    /\ env.exchange.kind = "throws"
    /\ token.returned = <<"old">>

\* The field of the token data that makes the token stale: an expiry
\* within 5 minutes of now, or a timestamp older than one hour.
StaleField(json) ==
    \/ json.expiryDate # <<>> /\ json.expiryDate[1] < Now + FiveMinutesMs
    \/ json.timestamp # <<>> /\ json.timestamp[1] < Now - OneHourMs

\* C19: within one call the exchange is attempted at most once, and only
\* if the token data holds a timestamp or an expiry field and that field is
\* stale; token data with neither field never triggers a refresh.
C19_RefreshOnlyWhenStale ==
    (handler = "token") =>
        /\ token.exchanges <= 1
        /\ token.exchanges = 1 =>
              /\ token.tokenDataJson.kind = "object"
              /\ StaleField(token.tokenDataJson)

\* ------------------------------------------------------------------
\* The whole prompt table: lib/promptsFromSheets.ts
\* ------------------------------------------------------------------

\* The row (1-indexed) whose prompt serves the four picture fields, and the
\* row reserved for the subtopics field.
PictureRow == 13

SubtitlesRow == 17

\* titleMappings, in the order of its entries.
titleMappings ==
    << <<<<"t","i","t","l","e">>,
         F_title>>,
       <<<<"w","t","i","t","l","e">>,
         F_title>>,
       <<<<"i","n","t","r","o","d","u","c","t","i","o","n">>,
         F_intro>>,
       <<<<"i","n","t","r","o">>,
         F_intro>>,
       <<<<"e","n","t","r","o">>,
         F_intro>>,
       <<<<"w","e","n","t","r","o">>,
         F_intro>>,
       <<<<"p","i","c","t","u","r","e"," ","1">>,
         F_pic1>>,
       <<<<"p","i","c","t","u","r","e"," ","2">>,
         F_pic2>>,
       <<<<"p","i","c","t","u","r","e"," ","3">>,
         F_pic3>>,
       <<<<"p","i","c","t","u","r","e"," ","4">>,
         F_pic4>>,
       <<<<"p","i","c","1">>,
         F_pic1>>,
       <<<<"p","i","c","2">>,
         F_pic2>>,
       <<<<"p","i","c","3">>,
         F_pic3>>,
       <<<<"p","i","c","4">>,
         F_pic4>>,
       <<<<"w","p","i","c","1">>,
         F_pic1>>,
       <<<<"w","p","i","c","2">>,
         F_pic2>>,
       <<<<"w","p","i","c","3">>,
         F_pic3>>,
       <<<<"w","p","i","c","4">>,
         F_pic4>>,
       <<<<"c","o","s","t">>,
         F_cost>>,
       <<<<"c","o","s","t"," ","i","n","f","o","r","m","a","t","i","o","n">>,
         F_cost>>,
       <<<<"w","c","o","s","t">>,
         F_cost>>,
       <<<<"w","h","y">>,
         F_why>>,
       <<<<"w","h","y"," ","c","h","o","o","s","e"," ","u","s">>,
         F_why>>,
       <<<<"w","w","h","y">>,
         F_why>>,
       <<<<"f","a","q">>,
         F_faq>>,
       <<<<"f","a","q","s">>,
         F_faq>>,
       <<<<"w","f","a","q">>,
         F_faq>>,
       <<<<"s","u","b","t","o","p","i","c","s">>,
         F_subtopics>>,
       <<<<"s","u","b">>,
         F_subtopics>> >>

\* mapFieldTitleToId: the mapping found for a title, <<>> for null.
RestrictToSubtitles(id, isSubtitlesOnly) ==
    IF isSubtitlesOnly
    THEN (IF id = F_subtopics THEN F_subtopics ELSE <<>>)
    ELSE id

mapFieldTitleToId(fieldTitle, isSubtitlesOnly) ==
    LET title == trim(toLowerCase(fieldTitle))
        direct == { i \in DOMAIN titleMappings : titleMappings[i][1] = title }
        partial == { i \in DOMAIN titleMappings :
                       \/ includes(title, titleMappings[i][1])
                       \/ includes(titleMappings[i][1], title) }
        First(S) == CHOOSE i \in S : \A j \in S : i <= j
    IN  IF direct # {}
        THEN RestrictToSubtitles(titleMappings[First(direct)][2],
                                 isSubtitlesOnly)
        ELSE IF partial # {}
        THEN RestrictToSubtitles(titleMappings[First(partial)][2],
                                 isSubtitlesOnly)
        ELSE <<>>

pictureFields == <<F_pic1, F_pic2, F_pic3, F_pic4>>

PromptEntry(id, title, promptText, example, isSubtitlesOnly) ==
    [fieldId |-> id, fieldTitle |-> title, prompt |-> trim(promptText),
     example |-> trim(example), isSubtitlesOnly |-> isSubtitlesOnly]

\* The loop body without the test that drops rows mapped to a picture field.
RowEntriesKeepPictureRows(row, i) ==
    LET fieldTitle == Cell(row, 1)
        promptText == Cell(row, 2)
        example == Cell(row, 3)
        isSubtitlesOnly == (i = SubtitlesRow)
        fieldMapping == mapFieldTitleToId(fieldTitle, isSubtitlesOnly)
    IN  IF trim(fieldTitle) = <<>> \/ trim(promptText) = <<>> THEN <<>>
        ELSE IF i = PictureRow
        THEN [k \in 1..4 |->
                PromptEntry(pictureFields[k], pictureFields[k], promptText,
                            example, FALSE)]
        ELSE IF fieldMapping = <<>> THEN <<>>
        ELSE << PromptEntry(fieldMapping, trim(fieldTitle), promptText,
                            example, isSubtitlesOnly) >>

\* The entries one row adds to the list (the body of the loop).
RowEntries(row, i) ==
    LET fieldTitle == Cell(row, 1)
        promptText == Cell(row, 2)
        example == Cell(row, 3)
        isSubtitlesOnly == (i = SubtitlesRow)
        fieldMapping == mapFieldTitleToId(fieldTitle, isSubtitlesOnly)
    IN  IF trim(fieldTitle) = <<>> \/ trim(promptText) = <<>> THEN <<>>
        ELSE IF i = PictureRow
        THEN [k \in 1..4 |->
                PromptEntry(pictureFields[k], pictureFields[k], promptText,
                            example, FALSE)]
        ELSE IF fieldMapping = <<>> THEN <<>>
        ELSE IF \E k \in 1..4 : pictureFields[k] = fieldMapping THEN <<>>
        ELSE << PromptEntry(fieldMapping, trim(fieldTitle), promptText,
                            example, isSubtitlesOnly) >>

RECURSIVE ProcessRows(_, _)
ProcessRows(sheet, i) ==
    IF i > Len(sheet) THEN <<>>
    ELSE RowEntries(sheet[i], i) \o ProcessRows(sheet, i + 1)

PromptsFailure(method, why) ==
    [prompts |-> <<>>, accessMethod |-> method, error |-> why]

\* What the failed API call reports (error.message).
ApiErrorMessage == "Request failed"

getPromptsFromSheet(sheet, e) ==
    IF ~e.credentials
    THEN PromptsFailure(
           "Google Sheets API v4 (OAuth credentials not configured)",
           "Google OAuth credentials not configured. Need GOOGLE_CLIENT_ID "
               \o "and GOOGLE_CLIENT_SECRET in environment variables.")
    ELSE IF ~e.sheetId
    THEN PromptsFailure(
           "Google Sheets API v4 (sheet ID not configured)",
           "GOOGLE_SHEET_ID not configured in environment variables.")
    ELSE IF ~e.accessToken
    THEN PromptsFailure(
           "Google Sheets API v4 (no access token)",
           "No access token provided. User needs to authenticate with "
               \o "Google.")
    ELSE IF ~e.apiOk
    THEN PromptsFailure("Google Sheets API v4 OAuth (failed)",
                        "API Error: " \o ApiErrorMessage)
    ELSE IF Len(sheet) = 0
    THEN PromptsFailure("Google Sheets API v4 OAuth",
                        "No data found in the Prompts sheet")
    ELSE [prompts |-> ProcessRows(sheet, 1),
          accessMethod |-> "Google Sheets API v4 OAuth", error |-> ""]

\* Sheets of the model: rows are filled at a few positions and empty
\* elsewhere.
MaxFilled == 2

FillPositions == {1, 2, PictureRow, SubtitlesRow}

TableTitles ==
    { <<"t","i","t","l","e">>,
      <<"w","t","i","t","l","e">>,
      <<"C","o","s","t"," ">>,
      <<"c","o","s","t"," ","i","n","f","o","r","m","a","t","i","o","n">>,
      <<"s","u","b">>,
      <<"p","i","c","2">>,
      <<"t">>,
      <<"z","z">> }

\* Rows: every title with a prompt, and rows with a blank title, a blank
\* prompt, and padded prompt and example cells.
TableRows ==
    { <<t, <<"p">>>> : t \in TableTitles }
    \cup { << <<" ">>, <<"p">> >>,
           << <<"t","i","t","l","e">>, <<" ">> >>,
           << <<"s","u","b">>, <<"s">> >>,
           << <<"z","z">>, <<" ","q"," ">>, <<"e"," ">> >>,
           << <<"p","i","c","2">>, <<" ","q"," ">>, <<"e"," ">> >> }

SheetWith(filled) ==
    LET last == IF DOMAIN filled = {} THEN 0
                ELSE CHOOSE i \in DOMAIN filled :
                       \A j \in DOMAIN filled : j <= i
    IN  [i \in 1..last |-> IF i \in DOMAIN filled THEN filled[i] ELSE <<>>]

TableSheets ==
    { SheetWith(filled) :
        filled \in UNION { [P -> TableRows] :
                             P \in { Q \in SUBSET FillPositions :
                                       Cardinality(Q) <= MaxFilled } } }

PromptsEnvOk ==
    [credentials |-> TRUE, sheetId |-> TRUE, accessToken |-> TRUE,
     apiOk |-> TRUE]

PromptsEnvs ==
    { PromptsEnvOk,
      [PromptsEnvOk EXCEPT !.credentials = FALSE],
      [PromptsEnvOk EXCEPT !.sheetId = FALSE],
      [PromptsEnvOk EXCEPT !.accessToken = FALSE],
      [PromptsEnvOk EXCEPT !.apiOk = FALSE] }

InitPrompts ==
    /\ handler = "prompts"
    /\ pc = "start"
    /\ ClassifyIdle
    /\ GenerateIdle
    /\ PictureIdle
    /\ BatchIdle
    /\ TokenIdle
    /\ UiIdle
    /\ keyword = <<>>
    /\ fieldId = <<>>
    /\ response = NoResponse
    /\ env \in PromptsEnvs
    /\ rows \in TableSheets

LoadPrompts ==
    /\ handler = "prompts"
    /\ pc = "start"
    /\ response' = getPromptsFromSheet(rows, env)
    /\ pc' = "done"
    /\ UNCHANGED <<handler, keyword, env, rows, fieldId, classifyVars,
                   generateVars, pictureVars, batchVars, tokenVars,
                   uiVars>>

\* getPromptForField: the test of find() without the flow restriction.
PromptMatchesAnyFlow(p, f, fl) == p.fieldId = f

\* getPromptForField: the test of find().
PromptMatches(p, f, fl) ==
    IF p.isSubtitlesOnly
    THEN fl = "with subtopics" /\ p.fieldId = f
    ELSE p.fieldId = f

getPromptForField(sheet, f, fl, e) ==
    LET result == getPromptsFromSheet(sheet, e)
        hits == { i \in DOMAIN result.prompts :
                    PromptMatches(result.prompts[i], f, fl) }
        promptData == result.prompts[CHOOSE i \in hits :
                                        \A j \in hits : i <= j]
    IN  IF result.error # ""
        THEN [prompt |-> <<>>, example |-> <<>>, failed |-> TRUE,
              error |-> <<result.error>>]
        ELSE IF hits = {}
        THEN [prompt |-> <<>>, example |-> <<>>, failed |-> TRUE,
              error |-> <<"No prompt found for field", f, "in flow", fl>>]
        ELSE [prompt |-> promptData.prompt, example |-> promptData.example,
              failed |-> FALSE, error |-> <<>>]

InitPromptForField ==
    /\ handler = "promptForField"
    /\ pc = "start"
    /\ ClassifyIdle
    /\ PictureIdle
    /\ BatchIdle
    /\ TokenIdle
    /\ UiIdle
    /\ keyword = <<>>
    /\ response = NoResponse
    /\ request = NoRequestContext
    /\ system = <<>>
    /\ reply = <<>>
    /\ prompt = <<>>
    /\ modelCalls = 0
    /\ promptFetches = 0
    /\ fieldId \in {F_subtopics, F_title, F_pic1}
    /\ flow \in {"with subtopics", "no subtopics"}
    /\ env \in {PromptsEnvOk, [PromptsEnvOk EXCEPT !.apiOk = FALSE]}
    /\ rows \in TableSheets

PromptForField ==
    /\ handler = "promptForField"
    /\ pc = "start"
    /\ response' = getPromptsFromSheet(rows, env)
    /\ reply' = getPromptForField(rows, fieldId, flow, env)
    /\ pc' = "done"
    /\ UNCHANGED <<handler, keyword, env, rows, fieldId, classifyVars, flow,
                   prompt, modelCalls, promptFetches, request, system,
                   pictureVars, batchVars, tokenVars, uiVars>>

InitPromptTable == InitPrompts \/ InitPromptForField

NextPrompts == LoadPrompts \/ PromptForField

SpecPrompts == InitPromptTable /\ [][NextPrompts]_vars

\* C20: the list returned by getPromptsFromSheet holds at most one entry
\* with isSubtitlesOnly = false per fieldId, also when several rows carry
\* titles that map to the same field.
C20_OneEntryPerField ==
    (handler = "prompts" /\ pc = "done") =>
        \A i, j \in DOMAIN response.prompts :
            ( /\ i # j
              /\ ~response.prompts[i].isSubtitlesOnly
              /\ ~response.prompts[j].isSubtitlesOnly )
            => response.prompts[i].fieldId # response.prompts[j].fieldId

\* The entries of the returned list for one field.
EntriesFor(id) ==
    { i \in DOMAIN response.prompts : response.prompts[i].fieldId = id }

\* The picture entries are those of row 13, one per picture field, or none.
PictureEntriesFromRow13(present) ==
    \A k \in 1..4 :
        IF present
        THEN /\ Cardinality(EntriesFor(pictureFields[k])) = 1
             /\ \A i \in EntriesFor(pictureFields[k]) :
                    /\ response.prompts[i].prompt
                          = trim(Cell(rows[PictureRow], 2))
                    /\ response.prompts[i].example
                          = trim(Cell(rows[PictureRow], 3))
        ELSE EntriesFor(pictureFields[k]) = {}

\* C21 as stated: when the title and prompt cells of row 13 are non-empty,
\* the list holds exactly one entry for each of pic1..pic4 with row 13's
\* trimmed prompt and example, whatever the title; no other row adds a
\* picture entry, so each picture field has zero or one entry.
C21_PictureFanOut ==
    (handler = "prompts" /\ pc = "done" /\ response.error = "") =>
        PictureEntriesFromRow13(
            /\ Len(rows) >= PictureRow
            /\ Cell(rows[PictureRow], 1) # <<>>
            /\ Cell(rows[PictureRow], 2) # <<>>)

\* C21 amended: the same, when the title and prompt cells of row 13 are
\* non-blank, that is non-empty after trimming.
C21_PictureFanOutAmended ==
    (handler = "prompts" /\ pc = "done" /\ response.error = "") =>
        PictureEntriesFromRow13(
            /\ Len(rows) >= PictureRow
            /\ trim(Cell(rows[PictureRow], 1)) # <<>>
            /\ trim(Cell(rows[PictureRow], 2)) # <<>>)

\* Row 13 holds an unmapped title with padded cells, another row holds a
\* picture title, and the list is the four entries of row 13.
C21_Witness ==
    /\ handler = "prompts" /\ pc = "done" /\ response.error = ""
    /\ Len(rows) >= PictureRow
    /\ rows[PictureRow] = << <<"z","z">>, <<" ","q"," ">>, <<"e"," ">> >>
    /\ Cell(rows[1], 1) = <<"p","i","c","2">>
    /\ Len(response.prompts) = 4
    /\ response.prompts[2].prompt = <<"q">>
    /\ response.prompts[2].example = <<"e">>

\* The sentinel row is filled and no other row carries its prompt text.
Row17PromptIsDistinct ==
    /\ Len(rows) >= SubtitlesRow
    /\ trim(Cell(rows[SubtitlesRow], 2)) # <<>>
    /\ \A i \in 1..(SubtitlesRow - 1) :
          trim(Cell(rows[i], 2)) # trim(Cell(rows[SubtitlesRow], 2))

\* C22: the prompt of row 17 is usable only for the subtopics field under
\* the "with subtopics" flow: the list holds an entry for row 17 only if
\* the title of row 17 maps to subtopics, and getPromptForField returns the
\* prompt of row 17 for no other fieldId and for no field under
\* "no subtopics".
C22_Row17OnlyForSubtopics ==
    /\ (handler \in {"prompts", "promptForField"} /\ pc = "done") =>
          \A i \in DOMAIN response.prompts :
              response.prompts[i].isSubtitlesOnly =>
                  /\ response.prompts[i].fieldId = F_subtopics
                  /\ Len(rows) >= SubtitlesRow
                  /\ mapFieldTitleToId(Cell(rows[SubtitlesRow], 1), FALSE)
                        = F_subtopics
                  /\ response.prompts[i].prompt
                        = trim(Cell(rows[SubtitlesRow], 2))
    /\ ( /\ handler = "promptForField" /\ pc = "done"
         /\ ~reply.failed
         /\ Row17PromptIsDistinct
         /\ reply.prompt = trim(Cell(rows[SubtitlesRow], 2)) )
       => (fieldId = F_subtopics /\ flow = "with subtopics")

\* Row 17 is the only subtopics row and its prompt was returned for the
\* subtopics field under "with subtopics".
C22_Witness ==
    /\ handler = "promptForField" /\ pc = "done"
    /\ Row17PromptIsDistinct
    /\ ~reply.failed
    /\ reply.prompt = <<"s">>
    /\ \E i \in DOMAIN response.prompts :
          response.prompts[i].isSubtitlesOnly
    /\ fieldId = F_subtopics /\ flow = "with subtopics"

\* C23: every failure of a handler ends in a response that carries an error
\* and the status of its class (400 validation, 401 auth, 404 not found,
\* 500 upstream or configuration), never a success status; stated here for
\* the competitors handler, whose failures are a bad keyword, missing
\* configuration, a missing token, a failed API call and a keyword that no
\* row holds.
C23_FailureHasErrorStatus ==
    (handler = "competitors" /\ pc = "done" /\ response.error # "none") =>
        response.status =
            CASE response.error = "keyword required" -> 400
              [] response.error = "no access token" -> 401
              [] response.error \in {"keyword not found", "no data"} -> 404
              [] OTHER -> 500

\* C29: every field id POST /generate/all sends to /generate/{fieldId}, in
\* either flow, is one that endpoint accepts as a valid field of the flow,
\* so no call of a run is answered 400 for its field.
C29_FanOutFieldsAreValid ==
    (handler = "all" /\ batch.started) =>
        \A k \in DOMAIN batch.calls :
            LET answer == ValidateGenerate(keyword, flow, batch.calls[k], env)
            IN  \/ answer.status = 0
                \/ answer.error \notin
                      {"invalid field", "subtopics field not available"}

\* ------------------------------------------------------------------
\* API key configuration: lib/apiKeys.ts
\* ------------------------------------------------------------------

\* process.env.NAME || fallback; an unset variable reads as "".
OrDefault(value, fallback) == IF value = "" THEN fallback ELSE value

\* requiredKeys as getApiKeys builds it from the environment (lines 32-51).
requiredKeys(e) ==
    [anthropic |->
        [apiKey |-> OrDefault(e.ANTHROPIC_API_KEY, ""),
         model |-> OrDefault(e.ANTHROPIC_MODEL, "claude-3-5-sonnet-20241022")],
     freepik |->
        [apiKey |-> OrDefault(e.FREEPIK_API_KEY, ""),
         webhookSecret |-> OrDefault(e.FREEPIK_WEBHOOK_SECRET, ""),
         imageModel |-> OrDefault(e.FREEPIK_IMAGE_MODEL, "imagen nano banana"),
         aspectRatio |-> OrDefault(e.FREEPIK_ASPECT_RATIO, "original")],
     google |-> [docUrl |-> OrDefault(e.GOOGLE_DOC_URL, "")],
     app |->
        [password |-> e.APP_PASSWORD,
         originAllowlist |-> e.ORIGIN_ALLOWLIST,
         publicUrl |-> OrDefault(e.NEXT_PUBLIC_APP_URL,
                                 "http://localhost:3000")]]

\* The names getApiKeys reports as missing (lines 54-70).
missingKeys(e) ==
    LET keys == requiredKeys(e)
    IN  (IF keys.anthropic.apiKey = "" THEN {"ANTHROPIC_API_KEY"} ELSE {})
        \cup (IF keys.freepik.apiKey = "" THEN {"FREEPIK_API_KEY"} ELSE {})
        \cup (IF keys.freepik.webhookSecret = ""
              THEN {"FREEPIK_WEBHOOK_SECRET"} ELSE {})
        \cup (IF keys.google.docUrl = "" THEN {"GOOGLE_DOC_URL"} ELSE {})

\* getApiKeys: throws when a required variable is missing.
getApiKeys(e) ==
    IF missingKeys(e) # {}
    THEN [threw |-> TRUE, keys |-> requiredKeys(e)]
    ELSE [threw |-> FALSE, keys |-> requiredKeys(e)]

\* validateApiKey(keyName, subKey); subKey "" when it is not given.
validateApiKey(keyName, subKey, e) ==
    LET got == getApiKeys(e)
    IN  IF got.threw THEN FALSE
        ELSE IF subKey # ""
        THEN /\ subKey \in DOMAIN got.keys[keyName]
             /\ got.keys[keyName][subKey] # ""
        ELSE TRUE

KeyEnvs ==
    [ANTHROPIC_API_KEY : {"", "k"}, ANTHROPIC_MODEL : {""},
     FREEPIK_API_KEY : {"", "k"}, FREEPIK_WEBHOOK_SECRET : {"", "k"},
     FREEPIK_IMAGE_MODEL : {""}, FREEPIK_ASPECT_RATIO : {""},
     GOOGLE_DOC_URL : {"", "k"}, APP_PASSWORD : {"", "k"},
     ORIGIN_ALLOWLIST : {""}, NEXT_PUBLIC_APP_URL : {""}]

KeyRequests ==
    [keyName : {"anthropic", "freepik", "google", "app"},
     subKey : {"", "apiKey", "model", "docUrl", "password"}]

InitKeys ==
    /\ handler = "apiKeys"
    /\ pc = "start"
    /\ ClassifyIdle
    /\ PictureIdle
    /\ BatchIdle
    /\ TokenIdle
    /\ UiIdle
    /\ SheetIdle
    /\ keyword = <<>>
    /\ flow = ""
    /\ system = <<>>
    /\ reply = <<>>
    /\ prompt = <<>>
    /\ modelCalls = 0
    /\ promptFetches = 0
    /\ env \in KeyEnvs
    /\ request \in KeyRequests

ValidateKey ==
    /\ handler = "apiKeys"
    /\ pc = "start"
    /\ response' = [status |-> 0,
                    valid |-> validateApiKey(request.keyName, request.subKey,
                                             env)]
    /\ pc' = "done"
    /\ UNCHANGED <<handler, keyword, env, rows, fieldId, classifyVars, flow,
                   reply, prompt, modelCalls, promptFetches, request,
                   system, pictureVars, batchVars, tokenVars, uiVars>>

NextKeys == ValidateKey

SpecKeys == InitKeys /\ [][NextKeys]_vars

\* C26: validateApiKey(keyName, subKey) is true exactly when that key
\* exists and is non-empty, whatever the other required environment
\* variables are: validateApiKey('google', 'docUrl') is false only when
\* GOOGLE_DOC_URL is unset.
C26_ValidatesThatKeyOnly ==
    (handler = "apiKeys" /\ pc = "done") =>
        LET group == requiredKeys(env)[request.keyName]
        IN  response.valid =
              IF request.subKey = "" THEN TRUE
              ELSE /\ request.subKey \in DOMAIN group
                   /\ group[request.subKey] # ""

\* C27: the title-casing of the content generator and the title-casing of
\* the picture batch are the same function: on every text of words
\* separated by spaces, the title the generator returns is what the
\* casing of the picture batch makes of the same text.
C27_SameTitleCasing ==
    (handler = "generate" /\ pc = "done" /\ fieldId = F_title
       /\ response.status = 200) =>
        response.output = BatchTitleCase(CleanContent(reply, keyword))

\* The number of places of s where p stands.
Occurrences(s, p) == Cardinality({at \in 1..Len(s) : MatchesAt(s, p, at)})

\* The prompt body: the prompt up to the 'Example format:' section.
PromptBody ==
    IF includes(prompt, ExampleHeading)
    THEN TextBefore(prompt, ExampleHeading) ELSE prompt

\* The template of the requested field after keyword substitution.
SubstitutedTemplate ==
    SubstituteKeyword(getPromptFromSheets(rows, fieldId, env).prompt, keyword)

\* C28: when the subtopics field is generated with a non-empty subtopics
\* list, the rendered bullet list stands in the prompt body exactly once:
\* in place of the placeholder when the template holds one, and otherwise
\* appended with the instruction sentence, never both and never neither;
\* with an empty list the step leaves the prompt as it was.
C28_SubtopicsListOnce ==
    (handler = "generate" /\ modelCalls > 0 /\ fieldId = F_subtopics) =>
        LET list == SubtopicsList(request.subtopics)
            hasPlaceholder ==
                \E at \in 1..Len(SubstitutedTemplate) :
                    MatchesAtIgnoreCase(SubstitutedTemplate,
                                        PlaceholderSubtopics, at)
            appended == includes(PromptBody, SubtopicsIntro)
        IN  IF Len(request.subtopics) > 0
            THEN /\ Occurrences(PromptBody, list) = 1
                 /\ hasPlaceholder <=> ~appended
            ELSE PromptBody = SubstitutedTemplate

\* ------------------------------------------------------------------
\* The text tab of the page: unnamed/part_002 (TextTab)
\* ------------------------------------------------------------------

\* The largest number of clicks (Classify, Generate, Generate All) in one
\* behaviour.
MaxEvents == 2

\* textFields of generateAll (lines 316-320).
TextFieldsOf(category) ==
    IF category = "with subtopics"
    THEN <<F_title, F_intro, F_subtopics, F_cost, F_why, F_faq>>
    ELSE <<F_title, F_intro, F_cost, F_why, F_faq>>

PictureFlags == {F_pic1, F_pic2, F_pic3, F_pic4}

\* The fields rendered with a Generate button (lines 475 and 505-516).
OfferedFields(category) ==
    IF category = "null" THEN {}
    ELSE {F_title, F_intro, F_cost, F_why, F_faq} \cup PictureFlags
           \cup (IF category = "with subtopics" THEN {F_subtopics} ELSE {})

\* fieldId.startsWith('pic')
StartsWithPic(f) == MatchesAt(f, <<"p","i","c">>, 1)

\* What a request of handleClassify can come to: a response (fulfilled) or
\* a rejection of the fetch.  The classify response is ok with a category,
\* not ok, or ok with a body that is not JSON; the competitors response is
\* ok with URLs, ok without, not ok, or ok with a body that is not JSON.
CallOutcomes(which) ==
    IF which = "classify"
    THEN {"with subtopics", "no subtopics", "null", "not ok", "bad body",
          "rejected"}
    ELSE {"found", "not found", "not ok", "bad body", "rejected"}

NoCall == [status |-> "none", outcome |-> "none"]

\* A join that goes on as soon as one of the two requests has settled.
JoinReadyFirst(calls) ==
    \E which \in DOMAIN calls : calls[which].status # "pending"

\* await Promise.all([...]): goes on when both requests are fulfilled, or
\* when one is rejected.
JoinReady(calls) ==
    \/ \A which \in DOMAIN calls : calls[which].status = "fulfilled"
    \/ \E which \in DOMAIN calls : calls[which].status = "rejected"

\* The catch block of handleClassify (lines 214-220).
ClassifyFailed(u) ==
    [u EXCEPT !.classification =
                  [category |-> "null", reason |-> "Error", loading |-> FALSE],
              !.classifyPc = "idle",
              !.lastClassify = "failed"]

\* The part of handleClassify after Promise.all (lines 166-220).
AfterJoin(u) ==
    LET classifyOutcome == u.calls["classify"].outcome
        competitorOutcome == u.calls["competitors"].outcome
    IN  IF \E which \in DOMAIN u.calls : u.calls[which].status = "rejected"
        THEN ClassifyFailed(u)
        ELSE IF classifyOutcome \in {"bad body", "not ok"}
        THEN ClassifyFailed(u)
        ELSE [u EXCEPT
                !.classification =
                    [category |-> classifyOutcome, reason |-> "classified",
                     loading |-> FALSE],
                !.competitorUrls =
                    IF competitorOutcome = "found" THEN "from sheet" ELSE "",
                !.keywordError =
                    IF competitorOutcome = "found" THEN "none"
                    ELSE IF competitorOutcome \in {"not ok", "bad body"}
                    THEN "lookup error"
                    ELSE "no urls",
                !.classifyPc = "idle",
                !.lastClassify = "applied"]

InitUI ==
    /\ handler = "ui"
    /\ pc = "start"
    /\ ClassifyIdle
    /\ GenerateIdle
    /\ PictureIdle
    /\ BatchIdle
    /\ TokenIdle
    /\ SheetIdle
    /\ keyword = <<>>
    /\ env = [browser |-> TRUE]
    /\ \E category \in {"null", "with subtopics", "no subtopics"} :
          ui = [started |-> TRUE,
                events |-> 0,
                classification |->
                    [category |-> category,
                     reason |-> IF category = "null"
                                THEN "Not yet classified" ELSE "classified",
                     loading |-> FALSE],
                competitorUrls |-> "typed",
                keywordError |-> "none",
                calls |-> [classify |-> NoCall, competitors |-> NoCall],
                classifyPc |-> "idle",
                lastClassify |-> "none",
                atStart |-> [category |-> category,
                             competitorUrls |-> "typed"],
                generatingFields |-> {},
                generatingAll |-> FALSE,
                run |-> [active |-> FALSE, flow |-> "null", list |-> <<>>,
                         next |-> 1, phase |-> "none"],
                sent |-> <<>>,
                requests |-> 0,
                inFlight |-> {}]

UiFrame ==
    UNCHANGED <<handler, pc, keyword, env, sheetVars, classifyVars,
                generateVars, pictureVars, batchVars, tokenVars>>

\* handleClassify up to Promise.all (lines 136-164); the Classify button
\* and the Enter key call it only while nothing is loading.
ClassifyStart ==
    /\ handler = "ui"
    /\ ui.events < MaxEvents
    /\ ~ui.classification.loading
    /\ ui' = [ui EXCEPT
                !.events = @ + 1,
                !.classification.loading = TRUE,
                !.keywordError = "none",
                !.calls = [classify |-> [status |-> "pending",
                                         outcome |-> "none"],
                           competitors |-> [status |-> "pending",
                                            outcome |-> "none"]],
                !.classifyPc = "waiting",
                !.lastClassify = "running",
                !.atStart = [category |-> ui.classification.category,
                             competitorUrls |-> ui.competitorUrls]]
    /\ UiFrame

\* One of the two requests settles.
ClassifySettles ==
    /\ handler = "ui"
    /\ \E which \in {"classify", "competitors"} :
          /\ ui.calls[which].status = "pending"
          /\ \E outcome \in CallOutcomes(which) :
                ui' = [ui EXCEPT !.calls[which] =
                          [status |-> IF outcome = "rejected"
                                      THEN "rejected" ELSE "fulfilled",
                           outcome |-> outcome]]
    /\ UiFrame

\* handleClassify goes on after Promise.all.
ClassifyJoin ==
    /\ handler = "ui"
    /\ ui.classifyPc = "waiting"
    /\ JoinReady(ui.calls)
    /\ ui' = AfterJoin(ui)
    /\ UiFrame

\* A generation request as it is sent: who sent it, the endpoint's last
\* path segment, the flow in its body, and the category on the page at
\* that moment.
Sent(u, owner, path, fl) ==
    [id |-> u.requests + 1, owner |-> owner, path |-> path, flow |-> fl,
     category |-> u.classification.category]

\* The flags generateField and generateAllPictures set and clear.
FlagsOf(path) == IF path = F_pictures THEN PictureFlags ELSE {path}

\* generateField(f) from a Generate button (lines 271-293, 223-244); the
\* button is there for an offered field and is disabled while that field
\* or the whole page is generating (line 525).
GenerateClick ==
    /\ handler = "ui"
    /\ ui.events < MaxEvents
    /\ ~ui.generatingAll
    /\ \E f \in OfferedFields(ui.classification.category) :
          /\ f \notin ui.generatingFields
          /\ LET path == IF StartsWithPic(f) THEN F_pictures ELSE f
             IN  ui' = [ui EXCEPT
                          !.events = @ + 1,
                          !.requests = @ + 1,
                          !.generatingFields = @ \cup FlagsOf(path),
                          !.inFlight = @ \cup
                              {Sent(ui, "single", path,
                                    ui.classification.category)}]
    /\ UiFrame

\* The request of a Generate button comes back, with or without success
\* (lines 295-307, 246-268).
SingleReturn ==
    /\ handler = "ui"
    /\ \E r \in ui.inFlight :
          /\ r.owner = "single"
          /\ ui' = [ui EXCEPT !.inFlight = @ \ {r},
                              !.generatingFields = @ \ FlagsOf(r.path)]
    /\ UiFrame

\* generateAll up to its loop (lines 310-320); the button is disabled
\* without a category and while generatingAll (line 495).
GenerateAllClick ==
    /\ handler = "ui"
    /\ ui.events < MaxEvents
    /\ ui.classification.category # "null"
    /\ ~ui.generatingAll
    /\ ui' = [ui EXCEPT
                !.events = @ + 1,
                !.generatingAll = TRUE,
                !.run = [active |-> TRUE,
                         flow |-> ui.classification.category,
                         list |-> TextFieldsOf(ui.classification.category),
                         next |-> 1, phase |-> "text"],
                !.sent = <<>>]
    /\ UiFrame

RunIdle(u) == \A r \in u.inFlight : r.owner # "run"

\* The loop of generateAll calls generateField for the next text field
\* (lines 323-325, 271-293).
RunSend ==
    /\ handler = "ui"
    /\ ui.run.active
    /\ ui.run.phase = "text"
    /\ ui.run.next <= Len(ui.run.list)
    /\ RunIdle(ui)
    /\ LET f == ui.run.list[ui.run.next]
       IN  ui' = [ui EXCEPT
                    !.requests = @ + 1,
                    !.generatingFields = @ \cup {f},
                    !.inFlight = @ \cup {Sent(ui, "run", f, ui.run.flow)},
                    !.sent = Append(@, f)]
    /\ UiFrame

\* The request of the loop comes back (lines 295-307).
RunReturn ==
    /\ handler = "ui"
    /\ ui.run.phase = "text"
    /\ \E r \in ui.inFlight :
          /\ r.owner = "run"
          /\ ui' = [ui EXCEPT !.inFlight = @ \ {r},
                              !.generatingFields = @ \ {r.path},
                              !.run.next = @ + 1]
    /\ UiFrame

\* After the loop generateAll calls generateAllPictures (lines 328,
\* 223-244).
RunSendPictures ==
    /\ handler = "ui"
    /\ ui.run.active
    /\ ui.run.phase = "text"
    /\ ui.run.next > Len(ui.run.list)
    /\ RunIdle(ui)
    /\ ui' = [ui EXCEPT
                !.requests = @ + 1,
                !.generatingFields = @ \cup PictureFlags,
                !.inFlight = @ \cup {Sent(ui, "run", F_pictures, ui.run.flow)},
                !.sent = Append(@, F_pictures),
                !.run.phase = "pictures"]
    /\ UiFrame

\* The picture request comes back and generateAll ends (lines 246-268,
\* 330).
RunEnd ==
    /\ handler = "ui"
    /\ ui.run.phase = "pictures"
    /\ \E r \in ui.inFlight :
          /\ r.owner = "run"
          /\ ui' = [ui EXCEPT !.inFlight = @ \ {r},
                              !.generatingFields = @ \ PictureFlags,
                              !.generatingAll = FALSE,
                              !.run.active = FALSE,
                              !.run.phase = "done"]
    /\ UiFrame

NextUI ==
    \/ ClassifyStart \/ ClassifySettles \/ ClassifyJoin
    \/ GenerateClick \/ SingleReturn
    \/ GenerateAllClick \/ RunSend \/ RunReturn \/ RunSendPictures
    \/ RunEnd

SpecUI == InitUI /\ [][NextUI]_vars

Pending(u) == \E which \in DOMAIN u.calls : u.calls[which].status = "pending"

C25_RunState ==
    (handler = "ui") =>
        /\ ui.run.active =>
              /\ Cardinality(ui.inFlight) <= 1
              /\ LET plan == ui.run.list \o <<F_pictures>>
                 IN  /\ Len(ui.sent) <= Len(plan)
                     /\ ui.sent = SubSeq(plan, 1, Len(ui.sent))
        /\ \A r \in ui.inFlight : r.path \notin PictureFlags

C25_SerialRun ==
    /\ []C25_RunState
    /\ [][RunEnd => (~ui'.generatingAll /\ ui'.generatingFields = {})]_vars

\* C30: the page offers the subtopics field only under "with subtopics",
\* and it sends no request for subtopics while the category on the page is
\* "no subtopics" or null.
C30_NoSubtopicsRequest ==
    (handler = "ui") =>
        /\ F_subtopics \in OfferedFields(ui.classification.category) =>
              ui.classification.category = "with subtopics"
        /\ \A r \in ui.inFlight :
              r.path = F_subtopics => r.category = "with subtopics"

====
